---- MODULE Spec2Model ----
(***************************************************************************)
(* Model of the fix engine of the content checker: Fix.apply_to_line,       *)
(* PatchFixer (fix, _fix_file, _save_patch, _apply_patch,                   *)
(* _manual_apply_patch, undo, list_patches) and InteractiveFixer; of the    *)
(* commands and the runner with its file cache; and of the path resolvers  *)
(* (PathResolver, DefaultResolver, HexoResolver) with the image checker    *)
(* (ImagePatterns, ImageChecker) on a file tree.                           *)
(*                                                                         *)
(* Text is modelled character by character: a text is a sequence of        *)
(* one-character strings, the newline being the character NL.  A file on    *)
(* disk, a patch artifact and a line are all such sequences, so that        *)
(* splitlines, join, the unified-diff writer and the built-in diff parser   *)
(* are modelled by what they do to the characters.                          *)
(***************************************************************************)
EXTENDS Integers, Sequences, FiniteSets, TLC

VARIABLES
    fxLine,      \* SpecLine: the line content handed to Fix.apply_to_line
    fxFix,       \* SpecLine: the Fix record
    fxOut,       \* SpecLine: the returned line
    fxDone,      \* SpecLine: apply_to_line has returned
    disk,        \* the documents: file name -> [exists, text]
    disk0,       \* the documents as they were before the fix command
    patchDir,    \* the patch directory: [exists, files]
    pc,          \* "idle", "prompt" (blocked in input()), "fixed", "raised", "undone"
    cmdIssues,   \* the issue list handed to the fix command
    strategy,    \* "none", "patch" or "interactive": the fixer of the command
    dryRun,      \* the dry_run argument of the command
    cmdSession,  \* the FixSession of the command's fixer
    loop,        \* the locals of InteractiveFixer.fix's loop
    runs,        \* one record per call of PatchFixer.fix
    undone,      \* the call of PatchFixer.undo
    fixExit,     \* the exit status of the fix command, None until it has ended
    clock,       \* the clock, in seconds: what datetime.now() is formatted from
    listed,      \* what the last `undo --list` printed
    typed,       \* SpecPrompt: what input() has returned so far in _prompt_action
    prAction,    \* SpecPrompt: the action _prompt_action returned, "none" before
    ctx,         \* SpecScan: the CheckContext: file_cache, and what it read from disk
    readOut,     \* SpecScan: what the last call of read_file did
    scanOut,     \* SpecScan: what the last call of CheckRunner.run did
    site,        \* SpecSite: the file tree of the machine, the project in it
    doc,         \* SpecSite: the document at hand, its lines, resolver and checker
    resOut,      \* SpecSite: what the last call of the resolver returned
    imgOut       \* SpecSite: what the last call of ImageChecker.check returned

lineVars == <<fxLine, fxFix, fxOut, fxDone>>
engineVars == <<disk, disk0, patchDir, pc, cmdIssues, strategy, dryRun, cmdSession, loop,
                runs, undone, fixExit>>
clockVars == <<clock, listed>>
promptVars == <<typed, prAction>>
scanVars == <<ctx, readOut, scanOut>>
siteVars == <<site, doc, resOut, imgOut>>
auxVars == <<clockVars, promptVars, scanVars, siteVars>>
vars == <<lineVars, engineVars, auxVars>>

-----------------------------------------------------------------------------
(* Bounds of the model. *)

MaxLineLen == 3
MaxTextLen == 2
MaxIssues == 2
MaxRetry == 1
MaxReads == 2
MaxDocLines == 4

-----------------------------------------------------------------------------
(* Characters and small helpers. *)

NL == "\n"

\* `column: int | None`, `start_col`, `end_col`: None is modelled as -1
\* (columns are 0-based indexes, never negative).
None == -1

Min(a, b) == IF a < b THEN a ELSE b

\* the function f as an explicit table: every value of it is computed once
Tabulated(f) == f @@ <<>>
Max(a, b) == IF a > b THEN a ELSE b

\* Python s[:k]
PySliceTo(s, k) ==
    LET kk == IF k < 0 THEN Max(k + Len(s), 0) ELSE Min(k, Len(s))
    IN SubSeq(s, 1, kk)

\* Python s[k:]
PySliceFrom(s, k) ==
    LET kk == IF k < 0 THEN Max(k + Len(s), 0) ELSE Min(k, Len(s))
    IN SubSeq(s, kk + 1, Len(s))

\* Python s.startswith(p)
StartsWith(s, p) == Len(p) <= Len(s) /\ SubSeq(s, 1, Len(p)) = p

\* sub occurs in s at 0-based offset i
OccursAt(s, sub, i) ==
    /\ i >= 0
    /\ i + Len(sub) <= Len(s)
    /\ SubSeq(s, i + 1, i + Len(sub)) = sub

\* Python s.find(sub): the lowest 0-based offset, -1 when sub does not occur
PyFind(s, sub) ==
    LET hits == {i \in 0..Len(s) : OccursAt(s, sub, i)}
    IN IF hits = {} THEN -1 ELSE CHOOSE i \in hits : \A j \in hits : i <= j

\* Python s.replace(old, new, 1)
PyReplaceFirst(s, old, new) ==
    LET i == PyFind(s, old)
    IN IF i < 0 THEN s
       ELSE SubSeq(s, 1, i) \o new \o SubSeq(s, i + Len(old) + 1, Len(s))

\* All sequences over S of length at most n
RECURSIVE SeqsUpTo(_, _)
SeqsUpTo(S, n) ==
    IF n = 0 THEN {<<>>}
    ELSE LET shorter == SeqsUpTo(S, n - 1)
         IN shorter \cup {Append(s, c) : s \in {t \in shorter : Len(t) = n - 1}, c \in S}

-----------------------------------------------------------------------------
(* Text: splitlines, join, decimal numbers. *)

IndexOfNL(s) ==
    LET hits == {i \in 1..Len(s) : s[i] = NL}
    IN IF hits = {} THEN 0 ELSE CHOOSE i \in hits : \A j \in hits : i <= j

\* Python s.splitlines(keepends=True) (NL is the only line break of the model)
RECURSIVE SplitKeep(_)
SplitKeep(s) ==
    IF s = <<>> THEN <<>>
    ELSE LET k == IndexOfNL(s)
         IN IF k = 0 THEN <<s>>
            ELSE <<SubSeq(s, 1, k)>> \o SplitKeep(SubSeq(s, k + 1, Len(s)))

StripNL(l) == IF l # <<>> /\ l[Len(l)] = NL THEN SubSeq(l, 1, Len(l) - 1) ELSE l

\* Python s.splitlines()
SplitLines(s) == LET ls == SplitKeep(s) IN [i \in 1..Len(ls) |-> StripNL(ls[i])]

\* Python "".join(parts)
RECURSIVE Concat(_)
Concat(parts) == IF parts = <<>> THEN <<>> ELSE Head(parts) \o Concat(Tail(parts))

\* Python sep.join(parts)
RECURSIVE JoinWith(_, _)
JoinWith(sep, parts) ==
    IF parts = <<>> THEN <<>>
    ELSE IF Len(parts) = 1 THEN parts[1]
    ELSE parts[1] \o sep \o JoinWith(sep, Tail(parts))

\* Python s.split(sep) for a one-character separator
RECURSIVE SplitOn(_, _)
SplitOn(s, sep) ==
    LET hits == {i \in 1..Len(s) : s[i] = sep}
    IN IF hits = {} THEN <<s>>
       ELSE LET k == CHOOSE i \in hits : \A j \in hits : i <= j
            IN <<SubSeq(s, 1, k - 1)>> \o SplitOn(SubSeq(s, k + 1, Len(s)), sep)

\* Python s.split(): the runs of non-blank characters
SplitWords(s) == SelectSeq(SplitOn(s, " "), LAMBDA w : w # <<>>)

Digits == <<"0", "1", "2", "3", "4", "5", "6", "7", "8", "9">>

\* str(n) for n >= 0
RECURSIVE Str(_)
Str(n) == IF n < 10 THEN <<Digits[n + 1]>> ELSE Str(n \div 10) \o <<Digits[(n % 10) + 1]>>

\* the backquote character, which a TLA+ string cannot hold
BackQuote == "~"

\* the characters of the model in the order of their code points
CodeOrder ==
    <<" ", "!", "\"", "#", "%", "'", "(", ")", "-", ".", "/", "0", "1", "2", "3", "4", "5", "6", "7", "8", "9", ":", "<", "=", ">",
      "F", "[", "]", "_", BackQuote, "a", "b", "c", "d", "e", "g", "h", "i", "m", "n", "o",
      "p", "r", "s", "t", "u", "v", "x">>

CodePoint(c) == CHOOSE k \in 1..Len(CodeOrder) : CodeOrder[k] = c

\* a < b for str
RECURSIVE StrLess(_, _)
StrLess(a, b) ==
    IF b = <<>> THEN FALSE
    ELSE IF a = <<>> THEN TRUE
    ELSE IF Head(a) = Head(b) THEN StrLess(Tail(a), Tail(b))
    ELSE CodePoint(Head(a)) < CodePoint(Head(b))

\* Python s.endswith(p)
EndsWith(s, p) == Len(p) <= Len(s) /\ SubSeq(s, Len(s) - Len(p) + 1, Len(s)) = p

IsDigit(c) == \E d \in 1..10 : Digits[d] = c
DigitVal(c) == (CHOOSE d \in 1..10 : Digits[d] = c) - 1

\* int(s) for a string of decimal digits
RECURSIVE PyInt(_)
PyInt(s) ==
    IF Len(s) = 1 THEN DigitVal(s[1])
    ELSE 10 * PyInt(SubSeq(s, 1, Len(s) - 1)) + DigitVal(s[Len(s)])

\* int(s) raises ValueError unless s is a non-empty string of digits
IsInt(s) == s # <<>> /\ \A i \in 1..Len(s) : IsDigit(s[i])

\* Python lst[lo:hi] = new (slice assignment)
PySetSlice(lst, lo, hi, new) ==
    LET n == Len(lst)
        l == IF lo < 0 THEN Max(lo + n, 0) ELSE Min(lo, n)
        h0 == IF hi < 0 THEN Max(hi + n, 0) ELSE Min(hi, n)
        h == Max(h0, l)
    IN SubSeq(lst, 1, l) \o new \o SubSeq(lst, h + 1, n)

\* Python reversed(list)
Reverse(s) == [i \in 1..Len(s) |-> s[Len(s) + 1 - i]]

-----------------------------------------------------------------------------
(* difflib.unified_diff as PatchFixer._fix_file calls it (no junk, no       *)
(* autojunk below 200 lines).  a and b are lists of lines with their line   *)
(* ends kept; positions are 0-based and ranges half-open as in difflib.     *)

\* the blocks a[i:i+k] = b[j:j+k] inside a[alo:ahi], b[blo:bhi], as <<i, j, k>>
common_blocks(a, b, alo, ahi, blo, bhi) ==
    {t \in (alo..ahi) \X (blo..bhi) \X (0..(ahi - alo)) :
        /\ t[1] + t[3] <= ahi
        /\ t[2] + t[3] <= bhi
        /\ \A d \in 1..t[3] : a[t[1] + d] = b[t[2] + d]}

\* the size of the longest block
longest_size(blocks) == CHOOSE k \in {t[3] : t \in blocks} : \A t \in blocks : t[3] <= k

\* the blocks that start earliest in a
earliest_in_a(best) ==
    {t \in best : \A u \in best : t[1] <= u[1]}

\* of those, the block that starts earliest in b
earliest_in_b(besti) == CHOOSE t \in besti : \A u \in besti : t[2] <= u[2]

\* the longest block of kmax elements; no block is <<alo, blo, 0>>
longest_block(blocks, kmax, alo, blo) ==
    IF kmax = 0 THEN <<alo, blo, 0>>
    ELSE earliest_in_b(earliest_in_a({t \in blocks : t[3] = kmax}))

\* the earliest of the longest blocks
longest_of(blocks, alo, blo) == longest_block(blocks, longest_size(blocks), alo, blo)

\* SequenceMatcher.find_longest_match: the longest block a[i:i+k] = b[j:j+k]
\* inside a[alo:ahi], b[blo:bhi]; the earliest in a, then the earliest in b
find_longest_match(a, b, alo, ahi, blo, bhi) ==
    longest_of(common_blocks(a, b, alo, ahi, blo, bhi), alo, blo)

\* the recursion of SequenceMatcher.get_matching_blocks, in sorted order:
\* the blocks to the left of the longest match x, x, the blocks to its right
RECURSIVE matching_blocks_in(_, _, _, _, _, _)
RECURSIVE blocks_around(_, _, _, _, _, _, _)
blocks_around(a, b, alo, ahi, blo, bhi, x) ==
    IF x[3] = 0 THEN <<>>
    ELSE (IF alo < x[1] /\ blo < x[2]
          THEN matching_blocks_in(a, b, alo, x[1], blo, x[2]) ELSE <<>>)
         \o <<x>>
         \o (IF x[1] + x[3] < ahi /\ x[2] + x[3] < bhi
             THEN matching_blocks_in(a, b, x[1] + x[3], ahi, x[2] + x[3], bhi) ELSE <<>>)

matching_blocks_in(a, b, alo, ahi, blo, bhi) ==
    blocks_around(a, b, alo, ahi, blo, bhi, find_longest_match(a, b, alo, ahi, blo, bhi))

\* adjacent matching blocks are collapsed into one
RECURSIVE collapse_blocks(_)
collapse_blocks(bs) ==
    IF Len(bs) < 2 THEN bs
    ELSE LET x == bs[1]
             y == bs[2]
         IN IF x[1] + x[3] = y[1] /\ x[2] + x[3] = y[2]
            THEN collapse_blocks(<<<<x[1], x[2], x[3] + y[3]>>>> \o SubSeq(bs, 3, Len(bs)))
            ELSE <<x>> \o collapse_blocks(Tail(bs))

\* SequenceMatcher.get_matching_blocks, with the closing (la, lb, 0) block
get_matching_blocks(a, b) ==
    collapse_blocks(matching_blocks_in(a, b, 0, Len(a), 0, Len(b)))
        \o <<<<Len(a), Len(b), 0>>>>

MkOp(tag, i1, i2, j1, j2) == [tag |-> tag, i1 |-> i1, i2 |-> i2, j1 |-> j1, j2 |-> j2]

\* SequenceMatcher.get_opcodes: the loop over the matching blocks
RECURSIVE opcodes_from(_, _, _)
opcodes_from(blocks, i, j) ==
    IF blocks = <<>> THEN <<>>
    ELSE LET ai == blocks[1][1]
             bj == blocks[1][2]
             size == blocks[1][3]
             tag == IF i < ai /\ j < bj THEN "replace"
                    ELSE IF i < ai THEN "delete"
                    ELSE IF j < bj THEN "insert" ELSE ""
         IN (IF tag # "" THEN <<MkOp(tag, i, ai, j, bj)>> ELSE <<>>)
            \o (IF size > 0 THEN <<MkOp("equal", ai, ai + size, bj, bj + size)>> ELSE <<>>)
            \o opcodes_from(Tail(blocks), ai + size, bj + size)

get_opcodes(a, b) == opcodes_from(get_matching_blocks(a, b), 0, 0)

\* SequenceMatcher.get_grouped_opcodes: the loop that cuts the groups
RECURSIVE group_codes(_, _, _)
group_codes(codes, group, n) ==
    IF codes = <<>>
    THEN IF group # <<>> /\ ~(Len(group) = 1 /\ group[1].tag = "equal")
         THEN <<group>> ELSE <<>>
    ELSE LET c == codes[1]
         IN IF c.tag = "equal" /\ c.i2 - c.i1 > n + n
            THEN <<Append(group, MkOp(c.tag, c.i1, Min(c.i2, c.i1 + n),
                                      c.j1, Min(c.j2, c.j1 + n)))>>
                 \o group_codes(Tail(codes),
                                <<MkOp(c.tag, Max(c.i1, c.i2 - n), c.i2,
                                       Max(c.j1, c.j2 - n), c.j2)>>, n)
            ELSE group_codes(Tail(codes), Append(group, c), n)

\* `if not codes: codes = [("equal", 0, 1, 0, 1)]`
codes_or_equal(codes) == IF codes = <<>> THEN <<MkOp("equal", 0, 1, 0, 1)>> ELSE codes

\* `if codes[0][0] == 'equal'`: the leading equal block is cut to n lines
trim_first_op(f, n) == MkOp(f.tag, Max(f.i1, f.i2 - n), f.i2, Max(f.j1, f.j2 - n), f.j2)
trim_first(codes, n) ==
    IF codes[1].tag = "equal" THEN <<trim_first_op(codes[1], n)>> \o Tail(codes)
    ELSE codes

\* `if codes[-1][0] == 'equal'`: the trailing equal block is cut to n lines
trim_last_op(l, n) == MkOp(l.tag, l.i1, Min(l.i2, l.i1 + n), l.j1, Min(l.j2, l.j1 + n))
trim_last(codes, n) ==
    IF codes[Len(codes)].tag = "equal"
    THEN SubSeq(codes, 1, Len(codes) - 1) \o <<trim_last_op(codes[Len(codes)], n)>>
    ELSE codes

\* SequenceMatcher.get_grouped_opcodes(n)
get_grouped_opcodes(a, b, n) ==
    group_codes(trim_last(trim_first(codes_or_equal(get_opcodes(a, b)), n), n), <<>>, n)

\* difflib._format_range_unified
format_range_unified(start, stop) ==
    LET beginning == start + 1
        length == stop - start
    IN IF length = 1 THEN Str(beginning)
       ELSE IF length = 0 THEN Str(beginning - 1) \o <<",">> \o Str(length)
       ELSE Str(beginning) \o <<",">> \o Str(length)

\* the lines of one opcode: ' ' + line, '-' + line, '+' + line
opcode_text(a, b, c) ==
    LET mark(m, ls, lo, hi) == Concat([x \in 1..(hi - lo) |-> <<m>> \o ls[lo + x]])
    IN IF c.tag = "equal" THEN mark(" ", a, c.i1, c.i2)
       ELSE (IF c.tag \in {"replace", "delete"} THEN mark("-", a, c.i1, c.i2) ELSE <<>>)
            \o (IF c.tag \in {"replace", "insert"} THEN mark("+", b, c.j1, c.j2) ELSE <<>>)

\* one group: the @@ header and its lines
group_text(a, b, g) ==
    <<"@", "@", " ", "-">> \o format_range_unified(g[1].i1, g[Len(g)].i2)
        \o <<" ", "+">> \o format_range_unified(g[1].j1, g[Len(g)].j2)
        \o <<" ", "@", "@", NL>>
        \o Concat([x \in 1..Len(g) |-> opcode_text(a, b, g[x])])

\* the two header lines and the groups, nothing when there is no group
diff_text(a, b, rel, groups) ==
    IF groups = <<>> THEN <<>>
    ELSE <<"-", "-", "-", " ", "a", "/">> \o rel \o <<NL>>
         \o <<"+", "+", "+", " ", "b", "/">> \o rel \o <<NL>>
         \o Concat([x \in 1..Len(groups) |-> group_text(a, b, groups[x])])

\* "".join(difflib.unified_diff(a, b, fromfile="a/<rel>", tofile="b/<rel>", n=n))
unified_diff(a, b, rel, n) == diff_text(a, b, rel, get_grouped_opcodes(a, b, n))

-----------------------------------------------------------------------------
(* core/issue.py: Fix and Issue *)

MkFix(original, replacement, line, start_col, end_col) ==
    [original |-> original, replacement |-> replacement, line |-> line,
     start_col |-> start_col, end_col |-> end_col]

\* the regression the tests guard against: the end of the span is not computed
apply_to_line_noend(fix, line_content) ==
    IF fix.start_col = None
    THEN PyReplaceFirst(line_content, fix.original, fix.replacement)
    ELSE LET end == IF fix.end_col # None THEN fix.end_col ELSE fix.start_col
         IN PySliceTo(line_content, fix.start_col) \o fix.replacement
                \o PySliceFrom(line_content, end)

\* Fix.apply_to_line
apply_to_line(fix, line_content) ==
    IF fix.start_col = None
    THEN PyReplaceFirst(line_content, fix.original, fix.replacement)
    ELSE LET end == IF fix.end_col # None
                    THEN fix.end_col
                    ELSE fix.start_col + Len(fix.original)
         IN PySliceTo(line_content, fix.start_col) \o fix.replacement
                \o PySliceFrom(line_content, end)

\* Issue.get_fix of an issue that has a suggestion
get_fix(issue) ==
    MkFix(issue.original, issue.suggestion, issue.line, issue.column, None)

-----------------------------------------------------------------------------
(* The file system: the documents under the project root. *)

FileNames == {"f", "g"}

\* a path that names no file of the project
NoFile == "?"

MkFile(text) == [exists |-> TRUE, text |-> text]
Absent == [exists |-> FALSE, text |-> <<>>]

\* file.relative_to(root).as_posix(): every document lies directly under root
RelPath(file) == <<file>>

\* root / rel: the document a relative path of a patch header names
FileAt(rel) == IF Len(rel) = 1 /\ rel[1] \in FileNames THEN rel[1] ELSE NoFile

-----------------------------------------------------------------------------
(* fixers/base.py: FixResult, FixSession, Fixer.filter_fixable *)

MkIssue(file, line, original, has_suggestion, suggestion, column) ==
    [file |-> file, line |-> line, original |-> original,
     has_suggestion |-> has_suggestion, suggestion |-> suggestion, column |-> column]

\* FixResult(issue, action, applied=False, error=None); error "" stands for None
MkResult(issue, action, error) ==
    [issue |-> issue, action |-> action, applied |-> FALSE, error |-> error]

\* FixResult.was_fixed
was_fixed(r) == r.applied /\ r.action = "accept"

\* FixSession(): id taken from the clock, no result, not completed
NewSession(now) == [id |-> now, results |-> <<>>, completed |-> FALSE]

\* FixSession.complete
complete(session) == [session EXCEPT !.completed = TRUE]

\* Fixer.can_fix
can_fix(issue) == issue.has_suggestion

\* Fixer.filter_fixable
filter_fixable(issues) == SelectSeq(issues, can_fix)

-----------------------------------------------------------------------------
(* fixers/patch.py: PatchFixer._fix_file *)

\* PatchFixer.context_lines
context_lines == 3

\* the place of x after the issues sorted before it: behind those of its
\* line and of higher lines
insert_by_line(rest, x) ==
    SelectSeq(rest, LAMBDA y : y.line >= x.line) \o <<x>>
        \o SelectSeq(rest, LAMBDA y : y.line < x.line)

\* sorted(issues, key=lambda i: i.line, reverse=True): stable, so issues of
\* one line keep the order they were supplied in
RECURSIVE sorted_by_line_desc(_)
sorted_by_line_desc(issues) ==
    IF issues = <<>> THEN <<>>
    ELSE insert_by_line(sorted_by_line_desc(SubSeq(issues, 1, Len(issues) - 1)),
                        issues[Len(issues)])

\* `if lines and not lines[-1].endswith("\n"): lines[-1] += "\n"`
end_last_line(lines) ==
    IF lines # <<>> /\ lines[Len(lines)][Len(lines[Len(lines)])] # NL
    THEN [lines EXCEPT ![Len(lines)] = @ \o <<NL>>]
    ELSE lines

\* the lines the fixes are applied to: splitlines(keepends=True), the last
\* line given a line end when it has none
fix_lines(original_content) == end_last_line(SplitKeep(original_content))

\* one pass of the loop `for issue in issues` of _fix_file
fix_step(issue, lines) ==
    LET line_idx == issue.line - 1
    IN IF ~issue.has_suggestion
       THEN [lines |-> lines, result |-> MkResult(issue, "skip", "No fix available")]
       ELSE IF 0 <= line_idx /\ line_idx < Len(lines)
       THEN [lines |-> [lines EXCEPT ![line_idx + 1] =
                            apply_to_line(get_fix(issue), lines[line_idx + 1])],
             result |-> MkResult(issue, "accept", "")]
       ELSE [lines |-> lines, result |-> MkResult(issue, "skip", "out of range")]

\* the loop with every fix applied to the lines as read, the lines of the
\* last pass kept: an earlier edit is lost
fix_loop_from_original(issues, lines, results) ==
    [lines |-> IF issues = <<>> THEN lines
               ELSE fix_step(issues[Len(issues)], lines).lines,
     results |-> results \o [k \in 1..Len(issues) |-> fix_step(issues[k], lines).result]]

RECURSIVE fix_loop(_, _, _)

\* the loop goes on from what one pass left
fix_next(issues, st, results) == fix_loop(issues, st.lines, Append(results, st.result))

\* the whole loop: the final lines and the results in processing order
fix_loop(issues, lines, results) ==
    IF issues = <<>> THEN [lines |-> lines, results |-> results]
    ELSE fix_next(Tail(issues), fix_step(issues[1], lines), results)

\* the end of _fix_file: None (<<>>) when nothing changed, else the diff
file_diff(original_content, fixed_content, results, file) ==
    [patch |-> IF original_content = fixed_content THEN <<>>
               ELSE unified_diff(SplitKeep(original_content), SplitKeep(fixed_content),
                                 RelPath(file), context_lines),
     results |-> results,
     original |-> original_content,
     fixed |-> fixed_content]

\* `fixed_content = "".join(lines)` and what follows
file_done(original_content, done, file) ==
    file_diff(original_content, Concat(done.lines), done.results, file)

\* the except branch returning without a result for the issues of the file
file_unread_silent(issues) ==
    [patch |-> <<>>, results |-> <<>>, original |-> <<>>, fixed |-> <<>>]

\* the except branch of read_text: every issue skipped with the error
file_unread(issues) ==
    [patch |-> <<>>,
     results |-> [i \in 1..Len(issues) |->
                     MkResult(issues[i], "skip", "Failed to read file")],
     original |-> <<>>, fixed |-> <<>>]

\* PatchFixer._fix_file(file, issues, root): patch <<>> stands for None
\* (fix only tests `if patch`); fixed is the content the diff leads to
fix_file(d, file, issues) ==
    IF file \notin FileNames \/ ~d[file].exists
    THEN file_unread(issues)
    ELSE file_done(d[file].text,
                   fix_loop(sorted_by_line_desc(issues), fix_lines(d[file].text), <<>>),
                   file)

-----------------------------------------------------------------------------
(* The project of the model: two documents and the issues a scan may hand   *)
(* over.  _fix_file is tabulated on these inputs, so that a state of the    *)
(* model costs a lookup; on any other input FixFile computes it.            *)

Txt5 == <<"a", NL, "b", NL, "c", NL, "d", NL, "e", NL>>
Txt5NoNL == SubSeq(Txt5, 1, Len(Txt5) - 1)
Txt2 == <<"a", NL, "b", NL>>

Disks ==
    {[n \in FileNames |-> IF n = "f" THEN MkFile(t) ELSE g] :
        t \in {Txt5, Txt5NoNL}, g \in {MkFile(Txt2), Absent}}

\* the issues a scan may hand over: a text match on line 2, a column match
\* on line 4, a line beyond the end, an issue of the other file, an issue
\* without suggestion, a line below 1, a text that is not on its line
IssuePool ==
    {MkIssue("f", 2, <<"b">>, TRUE, <<"x">>, None),
     MkIssue("f", 3, <<"b">>, TRUE, <<"x">>, None),
     MkIssue("f", 4, <<"d">>, TRUE, <<"y", "y">>, 0),
     MkIssue("f", 9, <<"b">>, TRUE, <<"x">>, None),
     MkIssue("g", 1, <<"a">>, TRUE, <<"x">>, None),
     MkIssue("f", 1, <<"a">>, FALSE, <<>>, None),
     MkIssue("f", 0, <<"a">>, TRUE, <<"x">>, None)}

IsInjective(s) == \A x, y \in 1..Len(s) : s[x] = s[y] => x = y

IssueLists == {s \in SeqsUpTo(IssuePool, MaxIssues) : IsInjective(s)}

\* the issues of one file, as fix groups them
IssuesOf(l, file) == SelectSeq(filter_fixable(l), LAMBDA i : i.file = file)

FixFileKeys == {<<d, file, IssuesOf(l, file)>> : d \in Disks, file \in FileNames, l \in IssueLists}

FixFileTable == [k \in FixFileKeys |-> fix_file(k[1], k[2], k[3])]

\* PatchFixer._fix_file, through the table
FixFile(d, file, issues) ==
    IF <<d, file, issues>> \in FixFileKeys THEN FixFileTable[<<d, file, issues>>]
    ELSE fix_file(d, file, issues)

-----------------------------------------------------------------------------
(* The external tools `git apply` and `patch`, run by subprocess.run.       *)
(* A tool is "missing" (FileNotFoundError), "broken" (it runs and returns a *)
(* non-zero status for a reason outside the model) or "works".  A working   *)
(* tool applies the diff of a file when the diff is well formed and the     *)
(* file still holds the content the diff starts from (forward: the content  *)
(* the diff was computed from, reverse: the content it leads to).  edits is *)
(* what a saved patch says, file by file: [file, old, new].                 *)

ToolStates == {"missing", "broken", "works"}

\* difflib writes no "\ No newline at end of file" marker: the diff of a
\* content whose last line has no line end runs two lines together
EndsWithNL(text) == text # <<>> /\ text[Len(text)] = NL
WellFormed(e) == EndsWithNL(e.old) /\ EndsWithNL(e.new)

ToolCanApply(d, e, reverse) ==
    /\ WellFormed(e)
    /\ d[e.file].exists
    /\ d[e.file].text = (IF reverse THEN e.new ELSE e.old)

ToolApplyOne(d, e, reverse) ==
    [d EXCEPT ![e.file] = MkFile(IF reverse THEN e.old ELSE e.new)]

RECURSIVE ToolApplyAll(_, _, _)
ToolApplyAll(d, edits, reverse) ==
    IF edits = <<>> THEN d
    ELSE ToolApplyAll(ToolApplyOne(d, edits[1], reverse), Tail(edits), reverse)

\* `git apply [-R]`: all files or none
GitRun(d, edits, reverse, state) ==
    LET can == state = "works" /\ \A i \in 1..Len(edits) : ToolCanApply(d, edits[i], reverse)
    IN [rc |-> IF can THEN 0 ELSE 1,
        disk |-> IF can THEN ToolApplyAll(d, edits, reverse) ELSE d]

\* `patch` goes through the files in order: a malformed diff ends the run, a
\* diff that does not match its file is rejected and the run goes on
RECURSIVE PatchToolFiles(_, _, _)
PatchToolFiles(d, edits, reverse) ==
    IF edits = <<>> THEN d
    ELSE LET e == edits[1]
         IN IF ~WellFormed(e) THEN d
            ELSE PatchToolFiles(IF ToolCanApply(d, e, reverse)
                                THEN ToolApplyOne(d, e, reverse) ELSE d,
                                Tail(edits), reverse)

\* `patch [-R] -p1`: status 0 when every file was patched
PatchRun(d, edits, reverse, state) ==
    LET can == state = "works" /\ \A i \in 1..Len(edits) : ToolCanApply(d, edits[i], reverse)
    IN [rc |-> IF can THEN 0 ELSE 1,
        disk |-> IF state = "works" THEN PatchToolFiles(d, edits, reverse) ELSE d]

-----------------------------------------------------------------------------
(* fixers/patch.py: PatchFixer._manual_apply_patch *)

HeaderFrom == <<"-", "-", "-", " ", "a", "/">>
HeaderTo == <<"+", "+", "+", " ", "b", "/">>

\* lines[i].startswith(("@@", "---", "+++"))
EndsHunkBody(line) ==
    \/ StartsWith(line, <<"@", "@">>)
    \/ StartsWith(line, <<"-", "-", "-">>)
    \/ StartsWith(line, <<"+", "+", "+">>)

\* the index after the hunk body that starts at i (lines are 1-based here)
RECURSIVE body_end(_, _)
body_end(lines, i) ==
    IF i > Len(lines) \/ EndsHunkBody(lines[i]) THEN i ELSE body_end(lines, i + 1)

\* hline[1:] of the body lines that start with one of the marks
body_lines(lines, from, to, marks) ==
    LET body == SubSeq(lines, from, to - 1)
        kept == SelectSeq(body, LAMBDA h : h # <<>> /\ h[1] \in marks)
    IN [x \in 1..Len(kept) |-> Tail(kept[x])]

\* hunks[current_file] = []
hunks_reset(hunks, file) ==
    IF \E x \in 1..Len(hunks) : hunks[x].file = file
    THEN [x \in 1..Len(hunks) |->
             IF hunks[x].file = file THEN [file |-> file, hs |-> <<>>] ELSE hunks[x]]
    ELSE Append(hunks, [file |-> file, hs |-> <<>>])

\* hunks[current_file].append(h)
hunks_append(hunks, file, h) ==
    [x \in 1..Len(hunks) |->
        IF hunks[x].file = file THEN [file |-> file, hs |-> Append(hunks[x].hs, h)]
        ELSE hunks[x]]

\* the `while i < len(lines)` loop: cur is current_file (has_cur: not None);
\* ok is FALSE when int() raises ValueError on the start of a hunk header
RECURSIVE parse_patch(_, _, _, _, _)
parse_patch(lines, i, has_cur, cur, hunks) ==
    IF i > Len(lines) THEN [ok |-> TRUE, hunks |-> hunks]
    ELSE LET line == lines[i]
         IN IF StartsWith(line, HeaderFrom)
            THEN IF i + 1 <= Len(lines) /\ StartsWith(lines[i + 1], HeaderTo)
                 THEN LET file == SubSeq(lines[i + 1], 7, Len(lines[i + 1]))
                      IN parse_patch(lines, i + 2, TRUE, file, hunks_reset(hunks, file))
                 ELSE parse_patch(lines, i + 2, has_cur, cur, hunks)
            ELSE IF StartsWith(line, <<"@", "@">>) /\ has_cur
                    /\ Len(SplitWords(line)) >= 3
            THEN LET old_info == SplitWords(line)[2]
                     digits == Tail(SplitOn(old_info, ",")[1])
                     stop == body_end(lines, i + 1)
                     h == [start |-> IF IsInt(digits) THEN PyInt(digits) ELSE 0,
                           old |-> body_lines(lines, i + 1, stop, {"-", " "}),
                           new |-> body_lines(lines, i + 1, stop, {"+", " "})]
                 IN IF ~IsInt(digits) THEN [ok |-> FALSE, hunks |-> hunks]
                    ELSE parse_patch(lines, stop, has_cur, cur,
                                     hunks_append(hunks, cur, h))
            ELSE parse_patch(lines, i + 1, has_cur, cur, hunks)

\* `for start, old_lines, new_lines in reversed(file_hunks)`
RECURSIVE apply_hunks(_, _)
apply_hunks(file_lines, hs) ==
    IF hs = <<>> THEN file_lines
    ELSE LET h == hs[1]
             start_idx == h.start - 1
             end_idx == start_idx + Len(h.old)
         IN apply_hunks(PySetSlice(file_lines, start_idx, end_idx, h.new), Tail(hs))

\* `for file, file_hunks in hunks.items()`: a missing file is skipped
RECURSIVE apply_files(_, _)
apply_files(d, hunks) ==
    IF hunks = <<>> THEN d
    ELSE LET file == FileAt(hunks[1].file)
         IN IF file = NoFile \/ ~d[file].exists
            THEN apply_files(d, Tail(hunks))
            ELSE LET file_lines == apply_hunks(SplitLines(d[file].text),
                                               Reverse(hunks[1].hs))
                 IN apply_files([d EXCEPT ![file] =
                                    MkFile(JoinWith(<<NL>>, file_lines) \o <<NL>>)],
                                Tail(hunks))

\* PatchFixer._manual_apply_patch(patch_file, root): raised when int() raises
manual_apply_patch(d, patch_content) ==
    LET parsed == parse_patch(SplitLines(patch_content), 1, FALSE, <<>>, <<>>)
    IN IF parsed.ok
       THEN [ok |-> TRUE, raised |-> FALSE, disk |-> apply_files(d, parsed.hunks)]
       ELSE [ok |-> FALSE, raised |-> TRUE, disk |-> d]

-----------------------------------------------------------------------------
(* fixers/patch.py: _apply_patch, undo, _save_patch, list_patches, fix *)

\* the files of the issues, in the order of their first issue (dict order)
RECURSIVE files_in_order(_, _)
files_in_order(issues, seen) ==
    IF issues = <<>> THEN seen
    ELSE files_in_order(Tail(issues),
                        IF \E x \in 1..Len(seen) : seen[x] = issues[1].file
                        THEN seen ELSE Append(seen, issues[1].file))

\* one entry of issues_by_file with what _fix_file returned for it
file_entry(file, ff) ==
    [file |-> file, patch |-> ff.patch, old |-> ff.original, new |-> ff.fixed,
     results |-> ff.results]

\* `for file, file_issues in issues_by_file.items()`: _fix_file on each file
fix_files(fixable, files, d) ==
    [k \in 1..Len(files) |->
        file_entry(files[k],
                   FixFile(d, files[k], SelectSeq(fixable, LAMBDA i : i.file = files[k])))]

\* all_patches, session.results and the combined patch of the files fixed;
\* edits is what the combined patch says, file by file
plan_of(fixable, computed, with_patch) ==
    [fixable |-> fixable,
     computed |-> [k \in 1..Len(computed) |->
                      [file |-> computed[k].file, patch |-> computed[k].patch,
                       old |-> computed[k].old, new |-> computed[k].new]],
     all_patches |-> [k \in 1..Len(with_patch) |-> with_patch[k].patch],
     results |-> Concat([k \in 1..Len(computed) |-> computed[k].results]),
     text |-> JoinWith(<<NL>>, [k \in 1..Len(with_patch) |-> with_patch[k].patch]),
     edits |-> [k \in 1..Len(with_patch) |->
                   [file |-> with_patch[k].file, old |-> with_patch[k].old,
                    new |-> with_patch[k].new]]]

\* `if patch: all_patches.append(patch)`
plan_files(fixable, computed) ==
    plan_of(fixable, computed, SelectSeq(computed, LAMBDA c : c.patch # <<>>))

plan_fixable(fixable, d) ==
    plan_files(fixable, fix_files(fixable, files_in_order(fixable, <<>>), d))

\* PatchFixer.fix up to `session.results.extend(results)`: the issues grouped
\* by file, the diff of each file, the results, and the combined patch text
fix_plan(issues, d) == plan_fixable(filter_fixable(issues), d)

\* the first part of PatchFixer.fix, tabulated on the model's project
FixPlanTable == [l \in IssueLists, d \in Disks |-> fix_plan(l, d)]

FixPlan(issues, d) ==
    IF issues \in IssueLists /\ d \in Disks THEN FixPlanTable[issues, d]
    ELSE fix_plan(issues, d)

\* the patches the model's project can lead to, and the built-in applier
\* tabulated on them
ManualKeys == {<<d, FixPlanTable[l, d].text>> : d \in Disks, l \in IssueLists}

ManualTable == [k \in ManualKeys |-> manual_apply_patch(k[1], k[2])]

\* PatchFixer._manual_apply_patch, through the table
ManualApply(d, patch_content) ==
    IF <<d, patch_content>> \in ManualKeys THEN ManualTable[<<d, patch_content>>]
    ELSE manual_apply_patch(d, patch_content)

\* what is logged of a tier: the tool was "missing", it ended with status 0
\* ("ok"), it works and refused the patch ("reject"), or it is broken ("fail")
Tier(name, outcome) == [tier |-> name, outcome |-> outcome]

ToolOutcome(rc, state) ==
    IF rc = 0 THEN "ok" ELSE IF state = "works" THEN "reject" ELSE "fail"

\* `return self._manual_apply_patch(patch_file, root)`
builtin_done(m, tiers) ==
    [ok |-> m.ok, raised |-> m.raised, disk |-> m.disk,
     tiers |-> Append(tiers, Tier("builtin", IF m.ok THEN "ok" ELSE "raise"))]

\* the except FileNotFoundError branch of _apply_patch
apply_builtin(d, art, tiers) == builtin_done(ManualApply(d, art.text), tiers)

\* `return result.returncode == 0` of the patch tool
patch_done(p, tiers) ==
    [ok |-> p.rc = 0, raised |-> FALSE, disk |-> p.disk, tiers |-> tiers]

\* _apply_patch after the patch tool has ended with status p.rc
apply_after_patch(p, git_outcome, ptool) ==
    patch_done(p, <<Tier("git", git_outcome), Tier("patch", ToolOutcome(p.rc, ptool))>>)

\* _apply_patch after `git apply` has ended with status g.rc
apply_after_git(g, art, git, ptool) ==
    IF g.rc = 0
    THEN [ok |-> TRUE, raised |-> FALSE, disk |-> g.disk, tiers |-> <<Tier("git", "ok")>>]
    ELSE IF ptool = "missing"
    THEN apply_builtin(g.disk, art,
                       <<Tier("git", ToolOutcome(g.rc, git)), Tier("patch", "missing")>>)
    ELSE apply_after_patch(PatchRun(g.disk, art.edits, FALSE, ptool),
                           ToolOutcome(g.rc, git), ptool)

\* PatchFixer._apply_patch(patch_file, root)
apply_patch(d, art, git, ptool) ==
    IF git = "missing"
    THEN apply_builtin(d, art, <<Tier("git", "missing")>>)
    ELSE apply_after_git(GitRun(d, art.edits, FALSE, git), art, git, ptool)

\* undo after `patch -R` has ended with status p.rc
undo_after_patch(p, git_outcome, ptool) ==
    [ok |-> p.rc = 0, disk |-> p.disk,
     tiers |-> <<Tier("git", git_outcome), Tier("patch", ToolOutcome(p.rc, ptool))>>]

\* undo after `git apply -R` has ended with status g.rc
undo_after_git(g, art, git, ptool) ==
    IF g.rc = 0
    THEN [ok |-> TRUE, disk |-> g.disk, tiers |-> <<Tier("git", "ok")>>]
    ELSE IF ptool = "missing"
    THEN [ok |-> FALSE, disk |-> g.disk,
          tiers |-> <<Tier("git", ToolOutcome(g.rc, git)), Tier("patch", "missing")>>]
    ELSE undo_after_patch(PatchRun(g.disk, art.edits, TRUE, ptool),
                          ToolOutcome(g.rc, git), ptool)

\* PatchFixer.undo(patch_file, root)
undo(d, art, git, ptool) ==
    IF git = "missing"
    THEN [ok |-> FALSE, disk |-> d, tiers |-> <<Tier("git", "missing")>>]
    ELSE undo_after_git(GitRun(d, art.edits, TRUE, git), art, git, ptool)

\* the second datetime.now() reads when the clock of the model is 0: the
\* tens digit changes with the first tick
FirstSecond == 9

\* strftime without the zero padding of a field
strftime_unpadded(now) == Str(now + FirstSecond)

\* datetime.now().strftime(...): the fields are zero-padded to a fixed width;
\* of the fields the seconds are modelled, the others do not change
strftime(now) ==
    IF now + FirstSecond < 10 THEN <<"0">> \o Str(now + FirstSecond)
    ELSE Str(now + FirstSecond)

PatchSuffix == <<".", "p", "a", "t", "c", "h">>

\* f"{timestamp}_{session_id}.patch": both parts come from the clock
PatchName(timestamp, session_id) == timestamp \o <<"_">> \o session_id \o PatchSuffix

NoPatchDir == [exists |-> FALSE, files |-> {}]

\* PatchFixer._save_patch: mkdir(parents, exist_ok), write_text (a file of the
\* same name is overwritten)
save_patch(pd, art) ==
    [exists |-> TRUE,
     files |-> {x \in pd.files : x.name # art.name} \cup {art}]

\* the loop over session.results without `if result.action == FixAction.ACCEPT`
mark_applied_all(results) ==
    [x \in 1..Len(results) |-> [results[x] EXCEPT !.applied = TRUE]]

\* `for result in session.results: if result.action == ACCEPT: result.applied = True`
mark_applied(results) ==
    [x \in 1..Len(results) |->
        IF results[x].action = "accept" THEN [results[x] EXCEPT !.applied = TRUE]
        ELSE results[x]]

\* what one call of PatchFixer.fix leaves behind when nothing is written
FixReturn(session, d, pd, computed) ==
    [session |-> session, disk |-> d, patchDir |-> pd, computed |-> computed,
     saved |-> FALSE, name |-> <<>>, apply |-> "none", tiers |-> <<>>, raised |-> FALSE]

\* the end of fix once _apply_patch has returned (or raised): the accepted
\* results are marked applied whatever it returned
fix_applied(plan, session, pd, art, ap) ==
    [session |-> IF ap.raised THEN session
                 ELSE complete([session EXCEPT !.results = mark_applied(plan.results)]),
     disk |-> ap.disk,
     patchDir |-> save_patch(pd, art),
     computed |-> plan.computed,
     saved |-> TRUE,
     name |-> art.name,
     apply |-> IF ap.raised THEN "raise" ELSE IF ap.ok THEN "ok" ELSE "fail",
     tiers |-> ap.tiers,
     raised |-> ap.raised]

\* `patch_file = self._save_patch(...)`, `self._apply_patch(patch_file, root)`
fix_write(plan, session, d, pd, art, git, ptool) ==
    fix_applied(plan, session, pd, art, apply_patch(d, art, git, ptool))

\* the body of `if all_patches and not dry_run`
fix_save(plan, session, d, pd, now, git, ptool) ==
    fix_write(plan, session, d, pd,
              [name |-> PatchName(strftime(now), strftime(session.id)), text |-> plan.text,
               edits |-> plan.edits],
              git, ptool)

\* PatchFixer.fix with the test of dry_run left out of `if all_patches and not
\* dry_run`: the patch is saved and applied in a dry run too
fix_planned_ignoring_dry_run(plan, dry_run, d, pd, now, git, ptool) ==
    IF plan.fixable = <<>> THEN FixReturn(complete(NewSession(now)), d, pd, <<>>)
    ELSE IF plan.all_patches # <<>>
    THEN fix_save(plan, [NewSession(now) EXCEPT !.results = plan.results],
                  d, pd, now, git, ptool)
    ELSE FixReturn(complete([NewSession(now) EXCEPT !.results = plan.results]),
                   d, pd, plan.computed)

\* PatchFixer.fix from `if not fixable` on, given what the files led to
fix_planned(plan, dry_run, d, pd, now, git, ptool) ==
    IF plan.fixable = <<>> THEN FixReturn(complete(NewSession(now)), d, pd, <<>>)
    ELSE IF plan.all_patches # <<>> /\ ~dry_run
    THEN fix_save(plan, [NewSession(now) EXCEPT !.results = plan.results],
                  d, pd, now, git, ptool)
    ELSE FixReturn(complete([NewSession(now) EXCEPT !.results = plan.results]),
                   d, pd, plan.computed)

\* PatchFixer.fix(issues, root, dry_run) on disk d and patch directory pd at
\* clock time now, with the external tools in the states git and ptool
fix(issues, dry_run, d, pd, now, git, ptool) ==
    fix_planned(FixPlan(issues, d), dry_run, d, pd, now, git, ptool)

\* sorted(..., reverse=True) of paths of one directory: by name, as str
\* compares, the greatest first
RECURSIVE sorted_names_desc(_)
sorted_names_desc(names) ==
    IF names = {} THEN <<>>
    ELSE <<CHOOSE n \in names : \A m \in names \ {n} : StrLess(m, n)>>
         \o sorted_names_desc(names \ {CHOOSE n \in names :
                                            \A m \in names \ {n} : StrLess(m, n)})

\* patch_dir.glob("*.patch")
glob_patch(pd) == {x.name : x \in {y \in pd.files : EndsWith(y.name, PatchSuffix)}}

\* PatchFixer.list_patches: newest first by file name
list_patches(pd) ==
    IF ~pd.exists THEN <<>> ELSE sorted_names_desc(glob_patch(pd))

-----------------------------------------------------------------------------
(* fixers/interactive.py: InteractiveFixer._prompt_action and the loop of   *)
(* InteractiveFixer.fix                                                     *)

UpperCase ==
    <<"A", "C", "D", "E", "F", "G", "H", "I", "L", "M", "N", "O", "P", "Q", "R", "S", "T", "U",
      "V", "Y", "Z">>
LowerCase ==
    <<"a", "c", "d", "e", "f", "g", "h", "i", "l", "m", "n", "o", "p", "q", "r", "s", "t", "u",
      "v", "y", "z">>

\* str.lower
PyLower(s) ==
    [x \in 1..Len(s) |->
        IF \E k \in 1..Len(UpperCase) : UpperCase[k] = s[x]
        THEN LowerCase[CHOOSE k \in 1..Len(UpperCase) : UpperCase[k] = s[x]]
        ELSE s[x]]

\* str.strip
RECURSIVE PyStrip(_)
PyStrip(s) ==
    IF s # <<>> /\ s[1] = " " THEN PyStrip(Tail(s))
    ELSE IF s # <<>> /\ s[Len(s)] = " " THEN PyStrip(SubSeq(s, 1, Len(s) - 1))
    ELSE s

Line(text) == [kind |-> "line", text |-> text]

\* _prompt_action with the `case "":` arm left out: empty input is an unknown
\* option and the prompt is shown again
prompt_action_empty_unknown(inp) ==
    IF inp.kind \in {"eof", "interrupt"} THEN "quit"
    ELSE IF PyLower(PyStrip(inp.text)) \in {<<"y">>, <<"y", "e", "s">>} THEN "accept"
    ELSE IF PyLower(PyStrip(inp.text)) \in {<<"n">>, <<"n", "o">>} THEN "skip"
    ELSE IF PyLower(PyStrip(inp.text)) \in {<<"a">>, <<"a", "l", "l">>} THEN "accept_all"
    ELSE IF PyLower(PyStrip(inp.text)) \in {<<"q">>, <<"q", "u", "i", "t">>} THEN "quit"
    ELSE "again"

\* one pass of the `while True` loop of _prompt_action on what input() does:
\* the action returned, or "again" when the loop goes round
prompt_action(inp) ==
    IF inp.kind \in {"eof", "interrupt"} THEN "quit"
    ELSE LET choice == PyLower(PyStrip(inp.text))
         IN IF choice \in {<<"y">>, <<"y", "e", "s">>} THEN "accept"
            ELSE IF choice \in {<<"n">>, <<"n", "o">>} THEN "skip"
            ELSE IF choice \in {<<"a">>, <<"a", "l", "l">>} THEN "accept_all"
            ELSE IF choice \in {<<"q">>, <<"q", "u", "i", "t">>} THEN "quit"
            ELSE IF choice \in {<<"d">>, <<"d", "i", "f", "f">>} THEN "again"
            ELSE IF choice \in {<<"?">>, <<"h", "e", "l", "p">>} THEN "again"
            ELSE IF choice = <<>> THEN "skip"
            ELSE "again"

\* the locals of the loop before its first pass
LoopStart(fixable) ==
    [fixable |-> fixable, i |-> 1, to_fix |-> <<>>, accept_all |-> FALSE,
     shown |-> <<>>, answers |-> <<>>, retries |-> 0, ended |-> fixable = <<>>]

NoLoop == LoopStart(<<>>)

\* the head of a pass that prompts: report_issue(issue) before input() blocks
show_issue(lp) == [lp EXCEPT !.shown = Append(@, lp.i), !.retries = 0]

\* accept-all taken for a plain accept: the loop goes on prompting
accept_rest_prompting(lp, results) ==
    [lp |-> IF lp.i > Len(lp.fixable) THEN [lp EXCEPT !.ended = TRUE]
            ELSE show_issue(lp),
     results |-> results]

\* the passes the loop makes without blocking once accept_all is set
accept_rest(lp, results) ==
    LET n == Len(lp.fixable)
        rest == SubSeq(lp.fixable, lp.i, n)
    IN [lp |-> [lp EXCEPT !.i = n + 1, !.to_fix = @ \o rest, !.ended = TRUE],
        results |-> results \o [x \in 1..Len(rest) |-> MkResult(rest[x], "accept", "")]]

\* quit recorded as a skip of the issue it was answered at
quit_loop_recording(lp, results) ==
    [lp |-> [lp EXCEPT !.ended = TRUE],
     results |-> Append(results, MkResult(lp.fixable[lp.i], "skip", ""))]

\* `case FixAction.QUIT: break`: nothing is recorded for the issue
quit_loop(lp, results) == [lp |-> [lp EXCEPT !.ended = TRUE], results |-> results]

\* the `match action` of the pass for issue lp.i, and the loop up to the next
\* input() or to its end
\* the loop goes to its next issue: the end of the loop, or the next prompt
next_issue(l) ==
    IF l.i + 1 > Len(l.fixable) THEN [l EXCEPT !.i = Len(l.fixable) + 1, !.ended = TRUE]
    ELSE show_issue([l EXCEPT !.i = @ + 1])

\* the `match action` on the issue of this pass
match_action(lp1, results, action, issue) ==
    IF action = "accept"
    THEN [lp |-> next_issue([lp1 EXCEPT !.to_fix = Append(@, issue)]),
          results |-> Append(results, MkResult(issue, "accept", ""))]
    ELSE IF action = "skip"
    THEN [lp |-> next_issue(lp1),
          results |-> Append(results, MkResult(issue, "skip", ""))]
    ELSE IF action = "accept_all"
    THEN accept_rest([lp1 EXCEPT !.accept_all = TRUE, !.i = @ + 1,
                                 !.to_fix = Append(@, issue)],
                     Append(results, MkResult(issue, "accept", "")))
    ELSE quit_loop(lp1, results)

loop_step(lp, results, action) ==
    match_action([lp EXCEPT !.answers = Append(@, action), !.retries = 0],
                 results, action, lp.fixable[lp.i])

-----------------------------------------------------------------------------
(* core/context.py and runner.py: CheckContext.read_file and its cache,     *)
(* get_context_lines, CheckRunner.run and _check_file                       *)

\* the ways a caller may spell a path, and Path.resolve() of each
RawPaths == {"f", "g", "sub/../f"}

resolve_path(raw) == IF raw = "sub/../f" THEN "f" ELSE raw

\* CheckContext after construction: an empty file_cache.  reads counts the
\* calls of path.read_text that returned, calls the calls of read_file that
\* returned (counted up to MaxReads), first is what the first of them saw on
\* disk; all three per resolved path and since the cache was last cleared.
NewContext ==
    [file_cache |-> <<>>,
     reads |-> [p \in FileNames |-> 0],
     calls |-> [p \in FileNames |-> 0],
     first |-> [p \in FileNames |-> <<>>]]

\* self.file_cache[path] = ...
cache_put(cache, p, text) ==
    [q \in DOMAIN cache \cup {p} |-> IF q = p THEN text ELSE cache[q]]

\* read_file when path is in file_cache
read_cached(c, p) ==
    [ctx |-> [c EXCEPT !.calls[p] = Min(@ + 1, MaxReads)],
     raised |-> FALSE, text |-> c.file_cache[p]]

\* read_file when path.read_text has returned text
read_disk(c, p, text) ==
    [ctx |-> [c EXCEPT !.file_cache = cache_put(@, p, text),
                       !.reads[p] = @ + 1,
                       !.calls[p] = Min(@ + 1, MaxReads),
                       !.first[p] = IF c.calls[p] = 0 THEN text ELSE @],
     raised |-> FALSE, text |-> text]

\* read_file that returns what is on disk and stores nothing
read_file_uncached(c, d, unread, p) ==
    IF ~d[p].exists \/ p \in unread
    THEN [ctx |-> c, raised |-> TRUE, text |-> <<>>]
    ELSE [ctx |-> [c EXCEPT !.reads[p] = @ + 1,
                            !.calls[p] = Min(@ + 1, MaxReads),
                            !.first[p] = IF c.calls[p] = 0 THEN d[p].text ELSE @],
          raised |-> FALSE, text |-> d[p].text]

\* CheckContext.read_file on the resolved path p; the files of unread cannot
\* be read (read_text raises), as a file that is not there
read_resolved(c, d, unread, p) ==
    IF p \in DOMAIN c.file_cache THEN read_cached(c, p)
    ELSE IF ~d[p].exists \/ p \in unread
    THEN [ctx |-> c, raised |-> TRUE, text |-> <<>>]
    ELSE read_disk(c, p, d[p].text)

\* CheckContext.read_file(path)
read_file(c, d, unread, raw) == read_resolved(c, d, unread, resolve_path(raw))

\* CheckContext.clear_cache
clear_cache(c) == NewContext

\* config.output.context_lines
output_context_lines == 3

NoContext == [before |-> <<>>, current |-> <<0, <<>>>>, after |-> <<>>, set |-> FALSE]

\* get_context_lines on the lines of the file
context_of(lines, line, before, after) ==
    [before |-> [x \in 1..((line - 1) - Max(0, line - 1 - before)) |->
                    <<Max(0, line - 1 - before) + x,
                      lines[Max(0, line - 1 - before) + x]>>],
     current |-> <<line, IF line - 1 < Len(lines) THEN lines[line] ELSE <<>>>>,
     after |-> [x \in 1..(Min(Len(lines), line + after) - line) |->
                   <<line + x, lines[line + x]>>],
     set |-> TRUE]

\* a snapshot a checker attaches to its issue by itself: the line alone
OwnContext(lines, line) ==
    [before |-> <<>>, current |-> <<line, lines[line]>>, after |-> <<>>, set |-> TRUE]

\* an issue of the scan: the checker that found it, where, and its snapshot
\* (`context: ContextLines | None = None`)
ScanIssue(checker, file, line, context) ==
    [checker |-> checker, file |-> file, line |-> line, context |-> context]

\* config.checkers: each checker flags the lines that are its mark; the third
\* one is switched off, the second takes the files of its kind only, the last
\* attaches a snapshot to its issues by itself
ScanCheckers ==
    <<[name |-> "c1", enabled |-> TRUE, supports |-> {"f", "g"}, mark |-> <<"a">>,
       snapshot |-> FALSE],
      [name |-> "c2", enabled |-> TRUE, supports |-> {"f"}, mark |-> <<"b">>,
       snapshot |-> FALSE],
      [name |-> "c3", enabled |-> FALSE, supports |-> {"f", "g"}, mark |-> <<"a">>,
       snapshot |-> FALSE],
      [name |-> "c4", enabled |-> TRUE, supports |-> {"f", "g"}, mark |-> <<"b">>,
       snapshot |-> TRUE]>>

\* checker.check(file, content, ctx) when it does not raise: one issue per
\* line that is the checker's mark
RECURSIVE marked_lines(_, _, _, _)
marked_lines(checker, file, lines, k) ==
    IF k > Len(lines) THEN <<>>
    ELSE (IF lines[k] = checker.mark
          THEN <<ScanIssue(checker.name, file, k,
                           IF checker.snapshot THEN OwnContext(lines, k) ELSE NoContext)>>
          ELSE <<>>)
         \o marked_lines(checker, file, lines, k + 1)

checker_check(checker, file, content) == marked_lines(checker, file, SplitLines(content), 1)

\* the for loop of _check_file with `except Exception: break` in the place of
\* `pass`: the checkers after one that raised are not run on the file
RECURSIVE run_checkers_until_raise(_, _, _, _, _)
run_checkers_until_raise(checkers, k, file, content, raising) ==
    IF k > Len(checkers) THEN <<>>
    ELSE IF ~checkers[k].enabled \/ file \notin checkers[k].supports
    THEN run_checkers_until_raise(checkers, k + 1, file, content, raising)
    ELSE IF <<checkers[k].name, file>> \in raising
    THEN <<>>
    ELSE checker_check(checkers[k], file, content)
         \o run_checkers_until_raise(checkers, k + 1, file, content, raising)

\* the for loop of _check_file from checker k on; the checker and file pairs
\* of raising are those where check raises
RECURSIVE run_checkers(_, _, _, _, _)
run_checkers(checkers, k, file, content, raising) ==
    IF k > Len(checkers) THEN <<>>
    ELSE IF ~checkers[k].enabled \/ file \notin checkers[k].supports
    THEN run_checkers(checkers, k + 1, file, content, raising)
    ELSE IF <<checkers[k].name, file>> \in raising
    THEN run_checkers(checkers, k + 1, file, content, raising)
    ELSE checker_check(checkers[k], file, content)
         \o run_checkers(checkers, k + 1, file, content, raising)

\* _check_file once read_file has returned or raised
file_checked(r, file, raising) ==
    [ctx |-> r.ctx,
     issues |-> IF r.raised THEN <<>>
                ELSE run_checkers(ScanCheckers, 1, file, r.text, raising)]

\* CheckRunner._check_file(file)
check_file(c, d, unread, raising, file) ==
    file_checked(read_file(c, d, unread, file), file, raising)

\* `all_issues.extend(issues)` and the rest of the loop over files
RECURSIVE run_files(_, _, _, _, _, _, _)
files_next(r, d, unread, raising, files, k, all_issues) ==
    run_files(r.ctx, d, unread, raising, files, k + 1, all_issues \o r.issues)

\* the loop `for file in files` of run, from file k on
run_files(c, d, unread, raising, files, k, all_issues) ==
    IF k > Len(files) THEN [ctx |-> c, issues |-> all_issues]
    ELSE files_next(check_file(c, d, unread, raising, files[k]),
                    d, unread, raising, files, k, all_issues)

\* `issue.context = self._context.get_context_lines(...)` and the rest of the
\* loop over all_issues
RECURSIVE fill_contexts(_, _, _, _, _)
context_filled(r, d, unread, issues, k) ==
    IF r.raised THEN [ctx |-> r.ctx, issues |-> issues, raised |-> TRUE]
    ELSE fill_contexts(r.ctx, d, unread,
                       [issues EXCEPT ![k].context =
                           context_of(SplitLines(r.text), issues[k].line,
                                      output_context_lines, output_context_lines)],
                       k + 1)

\* the loop over all_issues without `if issue.context is None`: the snapshot
\* of every issue is computed by the run
fill_contexts_overwriting(c, d, unread, issues, k) ==
    IF k > Len(issues) THEN [ctx |-> c, issues |-> issues, raised |-> FALSE]
    ELSE context_filled(read_file(c, d, unread, issues[k].file), d, unread, issues, k)

\* the loop `for issue in all_issues` of run, from issue k on
fill_contexts(c, d, unread, issues, k) ==
    IF k > Len(issues) THEN [ctx |-> c, issues |-> issues, raised |-> FALSE]
    ELSE IF issues[k].context.set THEN fill_contexts(c, d, unread, issues, k + 1)
    ELSE context_filled(read_file(c, d, unread, issues[k].file), d, unread, issues, k)

\* _collect_files with include = ["*"] and no exclude: the files that are
\* there, sorted
collect_files(d) ==
    SelectSeq(<<"f", "g">>, LAMBDA n : d[n].exists)

run_collected(r, d, unread) == fill_contexts(r.ctx, d, unread, r.issues, 1)

\* CheckRunner.run(report=False), without hooks
run(c, d, unread, raising) ==
    run_collected(run_files(c, d, unread, raising, collect_files(d), 1, <<>>), d, unread)

NoRead == [called |-> FALSE, path |-> "f", raised |-> FALSE, text |-> <<>>,
           disk |-> <<>>, nth |-> 0, first |-> <<>>, reads |-> 0]

NoScan == [called |-> FALSE, raised |-> FALSE, issues |-> <<>>, raising |-> {},
           seen |-> [p \in FileNames |->
                       [collected |-> FALSE, read |-> FALSE, text |-> <<>>]]]

ScanIdle == ctx = NewContext /\ readOut = NoRead /\ scanOut = NoScan

-----------------------------------------------------------------------------
(* pathlib and the file tree of the machine.  A path is its root ("", "/"    *)
(* or "//") and its parts; a name and a reference are sequences of           *)
(* characters.                                                               *)

\* PurePosixPath(s): one leading slash or three and more give the root "/",
\* exactly two the root "//"; empty parts and "." parts are dropped
PurePath(s) ==
    [root |-> IF StartsWith(s, <<"/", "/">>) /\ ~StartsWith(s, <<"/", "/", "/">>)
              THEN "//"
              ELSE IF StartsWith(s, <<"/">>) THEN "/" ELSE "",
     parts |-> SelectSeq(SplitOn(s, "/"), LAMBDA w : w # <<>> /\ w # <<".">>)]

\* base / other: an absolute right operand replaces the left one
path_join(base, other) ==
    IF other.root # "" THEN other
    ELSE [root |-> base.root, parts |-> base.parts \o other.parts]

\* Path.name
path_name(p) == IF p.parts = <<>> THEN <<>> ELSE p.parts[Len(p.parts)]

\* Path.parent
path_parent(p) ==
    IF p.parts = <<>> THEN p ELSE [p EXCEPT !.parts = SubSeq(@, 1, Len(@) - 1)]

RootChars(root) ==
    IF root = "/" THEN <<"/">> ELSE IF root = "//" THEN <<"/", "/">> ELSE <<>>

\* Path.as_posix()
as_posix(p) ==
    IF p.parts = <<>> /\ p.root = "" THEN <<".">>
    ELSE RootChars(p.root) \o JoinWith(<<"/">>, p.parts)

\* Path.is_relative_to(base); relative_to(base) raises ValueError without it
is_relative_to(p, base) ==
    /\ p.root = base.root
    /\ Len(base.parts) <= Len(p.parts)
    /\ SubSeq(p.parts, 1, Len(base.parts)) = base.parts

\* Path.relative_to(base) when it does not raise
relative_to(p, base) ==
    [root |-> "", parts |-> SubSeq(p.parts, Len(base.parts) + 1, Len(p.parts))]

\* name.rfind(".") when it is neither the first nor the last character of
\* the name, 0 otherwise
SuffixDot(name) ==
    IF \E k \in 2..(Len(name) - 1) :
           name[k] = "." /\ \A j \in (k + 1)..Len(name) : name[j] # "."
    THEN CHOOSE k \in 2..(Len(name) - 1) :
             name[k] = "." /\ \A j \in (k + 1)..Len(name) : name[j] # "."
    ELSE 0

\* Path.stem
path_stem(p) ==
    IF SuffixDot(path_name(p)) = 0 THEN path_name(p)
    ELSE SubSeq(path_name(p), 1, SuffixDot(path_name(p)) - 1)

\* Path.parts: the root is the first part of an absolute path
py_parts(p) == (IF p.root = "" THEN <<>> ELSE <<RootChars(p.root)>>) \o p.parts

DotDot == <<".", ".">>

\* the kernel follows the parts of an absolute path from the root of the
\* tree: every step starts in a directory, ".." goes to its parent
RECURSIVE os_walk(_, _, _)
os_walk(fs, at, rest) ==
    IF rest = <<>> THEN [ok |-> TRUE, at |-> at]
    ELSE IF at \notin fs.dirs THEN [ok |-> FALSE, at |-> at]
    ELSE IF Head(rest) = DotDot
    THEN os_walk(fs, SubSeq(at, 1, Len(at) - 1), Tail(rest))
    ELSE IF Append(at, Head(rest)) \in fs.dirs \cup fs.files
    THEN os_walk(fs, Append(at, Head(rest)), Tail(rest))
    ELSE [ok |-> FALSE, at |-> at]

\* Path.exists(), is_file(), is_dir() of an absolute path
path_exists(fs, p) == os_walk(fs, <<>>, p.parts).ok

is_file(fs, p) ==
    os_walk(fs, <<>>, p.parts).ok /\ os_walk(fs, <<>>, p.parts).at \in fs.files

is_dir(fs, p) ==
    os_walk(fs, <<>>, p.parts).ok /\ os_walk(fs, <<>>, p.parts).at \in fs.dirs

\* the names of the entries of the directory the walk ended at
entries_at(fs, at, kind) ==
    {q[Len(q)] : q \in {e \in kind : Len(e) = Len(at) + 1 /\ SubSeq(e, 1, Len(at)) = at}}

\* [f.name for f in dir.iterdir() if f.is_file()], as a set: the order of
\* iterdir does not reach the result of get_close_matches
file_names(fs, p) == entries_at(fs, os_walk(fs, <<>>, p.parts).at, fs.files)

\* [d.name for d in dir.iterdir() if d.is_dir()]
dir_names(fs, p) == entries_at(fs, os_walk(fs, <<>>, p.parts).at, fs.dirs)

-----------------------------------------------------------------------------
(* difflib.get_close_matches on names *)

RECURSIVE blocks_size(_)
blocks_size(bs) == IF bs = <<>> THEN 0 ELSE Head(bs)[3] + blocks_size(Tail(bs))

\* SequenceMatcher(a=x, b=word).ratio() as the fraction <<2 * M, T>>
ratio(x, word) == <<2 * blocks_size(get_matching_blocks(x, word)), Len(x) + Len(word)>>

\* the names of the files and directories of the model and of its references
Names ==
    {<<"c", "a", "t", ".", "p">>, <<"c", "o", "t", ".", "p">>, <<"c", "u", "t", ".", "p">>, <<"d", "o", "g", ".", "p">>,
     <<"x", ".", "p">>, <<"a", ".", "m", "d">>, <<"b", ".", "m", "d">>, <<"c", ".", "m", "d">>,
     <<"i", "m">>, <<"i", "m", "m">>, <<"h">>, <<"a">>,
     <<"p">>, <<"p", "g">>, <<"_", "p", "o", "s", "t", "s">>, <<".", ".">>,
     <<"%", "2", "F", "i", "m">>, <<"h", "t", "t", "p", ":">>, <<"h", "t", "t", "p", "s", ":">>, <<"t", "o", "p">>}

RatioTable == Tabulated([k \in Names \X Names |-> ratio(k[1], k[2])])

\* SequenceMatcher.ratio, through the table
Ratio(x, word) ==
    IF <<x, word>> \in Names \X Names THEN RatioTable[<<x, word>>] ELSE ratio(x, word)

\* r >= cutoff for fractions (ratio of two empty strings is 1.0)
ratio_at_least(r, cutoff) ==
    IF r[2] = 0 THEN TRUE ELSE r[1] * cutoff[2] >= cutoff[1] * r[2]

\* (score, x) < (score', y) as nlargest compares the pairs <<score, name>>
scored_less(p, q) ==
    \/ p[1][1] * q[1][2] < q[1][1] * p[1][2]
    \/ /\ p[1][1] * q[1][2] = q[1][1] * p[1][2]
       /\ StrLess(p[2], q[2])

\* the greatest pair of a set of pairs that is not empty
largest(pairs) == CHOOSE p \in pairs : \A q \in pairs \ {p} : scored_less(q, p)

\* heapq.nlargest(n, result): the names of the n best pairs, best first
RECURSIVE nlargest(_, _)
nlargest(n, pairs) ==
    IF n = 0 \/ pairs = {} THEN <<>>
    ELSE <<largest(pairs)[2]>> \o nlargest(n - 1, pairs \ {largest(pairs)})

\* result of get_close_matches: the pairs (ratio, x) of the possibilities
\* that reach the cutoff
scored(word, possibilities, cutoff) ==
    {p \in {<<Ratio(x, word), x>> : x \in possibilities} : ratio_at_least(p[1], cutoff)}

\* difflib.get_close_matches(word, possibilities, n, cutoff)
get_close_matches(word, possibilities, n, cutoff) ==
    nlargest(n, scored(word, possibilities, cutoff))

-----------------------------------------------------------------------------
(* core/resolver.py, resolvers/default.py and resolvers/hexo.py.  A resolver *)
(* sees the project root, the source document and the file tree; the Hexo    *)
(* resolver also its own settings [post_dir, asset_folder_per_post].         *)

\* resolve returned None
NoPath == [root |-> "none", parts |-> <<>>]

\* is_external without the protocol-relative form
is_external_with_scheme(path) ==
    \/ StartsWith(path, <<"h", "t", "t", "p", ":", "/", "/">>)
    \/ StartsWith(path, <<"h", "t", "t", "p", "s", ":", "/", "/">>)

\* PathResolver.is_external
is_external(path) ==
    \/ StartsWith(path, <<"h", "t", "t", "p", ":", "/", "/">>)
    \/ StartsWith(path, <<"h", "t", "t", "p", "s", ":", "/", "/">>)
    \/ StartsWith(path, <<"/", "/">>)

\* the rules after the external test and strip(): a leading slash is taken
\* off and the rest joined to the root, anything else to the document's
\* directory
default_resolve_local(path, source_file, root) ==
    IF StartsWith(path, <<"/">>) THEN path_join(root, PurePath(Tail(path)))
    ELSE path_join(path_parent(source_file), PurePath(path))

\* DefaultResolver.resolve
default_resolve(path, source_file, root) ==
    IF is_external(path) THEN NoPath
    ELSE default_resolve_local(PyStrip(path), source_file, root)

\* DefaultResolver.exists
default_exists(path, source_file, root, fs) ==
    \/ is_external(path)
    \/ /\ default_resolve(path, source_file, root) # NoPath
       /\ path_exists(fs, default_resolve(path, source_file, root))

\* urllib.parse.unquote on the escapes that occur in the references of the
\* model: %20 is a space and %2F a slash
RECURSIVE unquote(_)
unquote(s) ==
    IF s = <<>> THEN <<>>
    ELSE IF StartsWith(s, <<"%", "2", "0">>) THEN <<" ">> \o unquote(SubSeq(s, 4, Len(s)))
    ELSE IF StartsWith(s, <<"%", "2", "F">>) THEN <<"/">> \o unquote(SubSeq(s, 4, Len(s)))
    ELSE <<Head(s)>> \o unquote(Tail(s))

\* the prefix ./ is taken off once
strip_dot_slash(path) ==
    IF StartsWith(path, <<".", "/">>) THEN SubSeq(path, 3, Len(path)) ELSE path

\* HexoResolver._normalize_path
normalize_path(path) == strip_dot_slash(unquote(path))

\* HexoResolver._is_post_file
is_post_file(file, root, hexo) ==
    /\ is_relative_to(file, root)
    /\ relative_to(file, root).parts # <<>>
    /\ relative_to(file, root).parts[1] \in hexo.post_dir

\* source_file.parent / source_file.stem
asset_folder(source_file) ==
    path_join(path_parent(source_file), PurePath(path_stem(source_file)))

\* the post has an asset folder to look in
uses_asset_folder(source_file, root, hexo) ==
    is_post_file(source_file, root, hexo) /\ hexo.asset_folder_per_post

\* the rules of HexoResolver.resolve on the normalised path
hexo_resolve_local(path, source_file, root, fs, hexo) ==
    IF StartsWith(path, <<"/">>) THEN path_join(root, PurePath(Tail(path)))
    ELSE IF /\ uses_asset_folder(source_file, root, hexo)
            /\ path_exists(fs, path_join(asset_folder(source_file), PurePath(path)))
    THEN path_join(asset_folder(source_file), PurePath(path))
    ELSE path_join(path_parent(source_file), PurePath(path))

\* HexoResolver.resolve
hexo_resolve(path, source_file, root, fs, hexo) ==
    IF is_external(path) THEN NoPath
    ELSE hexo_resolve_local(normalize_path(PyStrip(path)), source_file, root, fs, hexo)

\* HexoResolver.exists
hexo_exists(path, source_file, root, fs, hexo) ==
    \/ is_external(path)
    \/ /\ hexo_resolve(path, source_file, root, fs, hexo) # NoPath
       /\ path_exists(fs, hexo_resolve(path, source_file, root, fs, hexo))

\* parent / similar_dirs[0] when there is a similar directory
first_under(dir, similar_dirs) ==
    IF similar_dirs = <<>> THEN dir
    ELSE path_join(path_parent(dir), PurePath(similar_dirs[1]))

\* a directory that does not exist gives way to the closest directory name
\* in its parent, when the parent exists and the substitution is allowed
substitute_dir(fs, dir, allowed, threshold) ==
    IF ~path_exists(fs, dir) /\ path_exists(fs, path_parent(dir)) /\ allowed
    THEN first_under(dir,
                     get_close_matches(path_name(dir), dir_names(fs, path_parent(dir)),
                                       1, threshold))
    ELSE dir

\* the up to three closest file names of a directory, best first
similar_files(fs, dir, target_name, threshold) ==
    IF path_exists(fs, dir)
    THEN get_close_matches(target_name, file_names(fs, dir), 3, threshold)
    ELSE <<>>

\* target_dir / similar for every similar file
joined_under(dir, names) == [i \in 1..Len(names) |-> path_join(dir, PurePath(names[i]))]

\* the similar files of a directory as paths
similar_paths(fs, dir, target_name, threshold) ==
    joined_under(dir, similar_files(fs, dir, target_name, threshold))

\* the form of one suggestion of PathResolver.find_similar
base_suggestion(similar_path, source_file) ==
    IF is_relative_to(similar_path, path_parent(source_file))
    THEN as_posix(relative_to(similar_path, path_parent(source_file)))
    ELSE as_posix(similar_path)

\* the suggestions of PathResolver.find_similar for the matched files
base_suggestions(matches, source_file) ==
    [i \in 1..Len(matches) |-> base_suggestion(matches[i], source_file)]

\* the matched files of PathResolver.find_similar, once the reference is
\* resolved to a local path
base_matches_of(resolved, fs, threshold) ==
    similar_paths(fs, substitute_dir(fs, path_parent(resolved), TRUE, threshold),
                  path_name(resolved), threshold)

\* the matched files of DefaultResolver.find_similar
default_matches(path, source_file, root, fs, threshold) ==
    IF default_resolve(path, source_file, root) = NoPath THEN <<>>
    ELSE base_matches_of(default_resolve(path, source_file, root), fs, threshold)

\* PathResolver.find_similar as the default resolver inherits it
default_find_similar(path, source_file, root, fs, threshold) ==
    base_suggestions(default_matches(path, source_file, root, fs, threshold), source_file)

\* target_dir_parts is not empty: the reference has more parts than its name
has_dir_parts(path) == Len(py_parts(PurePath(path))) > 1

\* base / Path(*target_dir_parts), or base without target_dir_parts
search_dir_under(base, path) ==
    IF has_dir_parts(path) THEN path_join(base, path_parent(PurePath(path))) ELSE base

\* search_dirs of HexoResolver.find_similar
search_dirs(path, source_file, root, hexo) ==
    <<search_dir_under(path_parent(source_file), path)>>
    \o (IF uses_asset_folder(source_file, root, hexo)
        THEN <<search_dir_under(asset_folder(source_file), path)>>
        ELSE <<>>)

\* the form of one suggestion of HexoResolver._find_similar_in_dir
hexo_suggestion(similar_path, source_file, root, hexo) ==
    IF /\ uses_asset_folder(source_file, root, hexo)
       /\ is_relative_to(similar_path, asset_folder(source_file))
    THEN as_posix(relative_to(similar_path, asset_folder(source_file)))
    ELSE IF is_relative_to(similar_path, path_parent(source_file))
    THEN as_posix(relative_to(similar_path, path_parent(source_file)))
    ELSE IF is_relative_to(similar_path, root)
    THEN <<"/">> \o as_posix(relative_to(similar_path, root))
    ELSE as_posix(similar_path)

\* the suggestions of HexoResolver._find_similar_in_dir for the matched files
hexo_suggestions(matches, source_file, root, hexo) ==
    [i \in 1..Len(matches) |-> hexo_suggestion(matches[i], source_file, root, hexo)]

\* the matched files of HexoResolver._find_similar_in_dir
matches_in_dir(search_dir, path, fs, threshold) ==
    similar_paths(fs, substitute_dir(fs, search_dir, has_dir_parts(path), threshold),
                  path_name(PurePath(path)), threshold)

\* HexoResolver._find_similar_in_dir
find_similar_in_dir(search_dir, path, source_file, root, fs, hexo, threshold) ==
    hexo_suggestions(matches_in_dir(search_dir, path, fs, threshold),
                     source_file, root, hexo)

\* the matched files of all search directories, in the order of the search
RECURSIVE matches_in_dirs(_, _, _, _)
matches_in_dirs(dirs, path, fs, threshold) ==
    IF dirs = <<>> THEN <<>>
    ELSE matches_in_dir(Head(dirs), path, fs, threshold)
         \o matches_in_dirs(Tail(dirs), path, fs, threshold)

\* the first occurrence of every element, in order
RECURSIVE unique_results(_)
unique_results(results) ==
    IF results = <<>> THEN <<>>
    ELSE <<Head(results)>>
         \o unique_results(SelectSeq(Tail(results), LAMBDA r : r # Head(results)))

\* the matched files of HexoResolver.find_similar
hexo_matches(path, source_file, root, fs, hexo, threshold) ==
    matches_in_dirs(search_dirs(path, source_file, root, hexo), path, fs, threshold)

\* HexoResolver.find_similar
hexo_find_similar(path, source_file, root, fs, hexo, threshold) ==
    unique_results(hexo_suggestions(hexo_matches(path, source_file, root, fs, hexo, threshold),
                                    source_file, root, hexo))

-----------------------------------------------------------------------------
(* checkers/image.py: the patterns of ImagePatterns as matchers on the       *)
(* characters of a line, and ImageChecker.  An index into a line starts at   *)
(* 1; a column and the offsets of a match start at 0 as in the source.       *)

Quotes == {"\"", "'"}

\* \w for the characters of the model
WordChars ==
    {"0", "2", "F", "_", "a", "b", "c", "d", "e", "g", "h", "i", "m", "n", "o", "p", "r",
     "s", "t", "u", "v", "x"}

\* the lowest index from i on that holds one of chars, 0 when there is none
FirstIn(s, i, chars) ==
    IF \E k \in i..Len(s) : s[k] \in chars
    THEN CHOOSE k \in i..Len(s) : s[k] \in chars /\ \A j \in i..(k - 1) : s[j] \notin chars
    ELSE 0

\* the lowest index from i on that holds no blank, Len(s) + 1 when there is
\* none: where \s* and \s+ stop
SkipBlanks(s, i) ==
    IF \E k \in i..Len(s) : s[k] # " "
    THEN CHOOSE k \in i..Len(s) : s[k] # " " /\ \A j \in i..(k - 1) : s[j] = " "
    ELSE Len(s) + 1

\* ImagePatterns.CODE_FENCE.match(line)
code_fence(line) ==
    StartsWith(SubSeq(line, SkipBlanks(line, 1), Len(line)),
               <<BackQuote, BackQuote, BackQuote>>)

\* ImagePatterns.INLINE_CODE.sub("", line): every span from a backquote to
\* the next one, with something between, is taken out, left to right
RECURSIVE inline_code_removed(_)
inline_code_removed(s) ==
    IF s = <<>> THEN <<>>
    ELSE IF s[1] = BackQuote /\ FirstIn(s, 2, {BackQuote}) > 2
    THEN inline_code_removed(SubSeq(s, FirstIn(s, 2, {BackQuote}) + 1, Len(s)))
    ELSE <<s[1]>> \o inline_code_removed(Tail(s))

\* a match of a pattern: the path group, the offset of the match, the index
\* where the search goes on, the offset of the path group
NoMatch == [path |-> <<>>, at |-> -1, end |-> 0, group |-> -1]

\* where the alt text (?:[^\[\]]|\[[^\]]*\])* stops when it starts at i
RECURSIVE alt_end(_, _)
alt_end(s, i) ==
    IF i > Len(s) THEN i
    ELSE IF s[i] = "]" THEN i
    ELSE IF s[i] = "["
    THEN IF FirstIn(s, i + 1, {"]"}) = 0 THEN i
         ELSE alt_end(s, FirstIn(s, i + 1, {"]"}) + 1)
    ELSE alt_end(s, i + 1)

\* where the group path_normal (?:[^()\s"]|\([^()]*\))+ stops when it
\* starts at q
RECURSIVE normal_end(_, _)
normal_end(s, q) ==
    IF q > Len(s) THEN q
    ELSE IF s[q] \in {")", " ", "\""} THEN q
    ELSE IF s[q] = "("
    THEN IF FirstIn(s, q + 1, {"(", ")"}) # 0 /\ s[FirstIn(s, q + 1, {"(", ")"})] = ")"
         THEN normal_end(s, FirstIn(s, q + 1, {"(", ")"}) + 1)
         ELSE q
    ELSE normal_end(s, q + 1)

\* the index of the > that closes <[^>]+> opened at q, 0 when q opens none
angle_close(s, q) ==
    IF q <= Len(s) /\ s[q] = "<" /\ FirstIn(s, q + 1, {">"}) > q + 1
    THEN FirstIn(s, q + 1, {">"})
    ELSE 0

\* the index after \s+["'][^"']*["']\) at a, 0 when a starts none
title_end(s, a) ==
    IF /\ a <= Len(s)
       /\ s[a] = " "
       /\ SkipBlanks(s, a) <= Len(s)
       /\ s[SkipBlanks(s, a)] \in Quotes
       /\ FirstIn(s, SkipBlanks(s, a) + 1, Quotes) # 0
       /\ FirstIn(s, SkipBlanks(s, a) + 1, Quotes) < Len(s)
       /\ s[FirstIn(s, SkipBlanks(s, a) + 1, Quotes) + 1] = ")"
    THEN FirstIn(s, SkipBlanks(s, a) + 1, Quotes) + 2
    ELSE 0

\* the index after the optional title and the closing parenthesis at a
tail_end(s, a) ==
    IF title_end(s, a) # 0 THEN title_end(s, a)
    ELSE IF a <= Len(s) /\ s[a] = ")" THEN a + 1
    ELSE 0

\* the index where the path of ![alt]( starts when the image opens at i,
\* 0 when none opens there
markdown_path_at(s, i) ==
    IF /\ i + 1 <= Len(s)
       /\ s[i] = "!"
       /\ s[i + 1] = "["
       /\ alt_end(s, i + 2) + 1 <= Len(s)
       /\ s[alt_end(s, i + 2)] = "]"
       /\ s[alt_end(s, i + 2) + 1] = "("
    THEN alt_end(s, i + 2) + 2
    ELSE 0

\* the path in angle brackets is tried first, the plain path after it
markdown_match_from(s, i, q) ==
    IF q = 0 THEN NoMatch
    ELSE IF angle_close(s, q) # 0 /\ tail_end(s, angle_close(s, q) + 1) # 0
    THEN [path |-> SubSeq(s, q + 1, angle_close(s, q) - 1), at |-> i - 1,
          end |-> tail_end(s, angle_close(s, q) + 1), group |-> q]
    ELSE IF normal_end(s, q) > q /\ tail_end(s, normal_end(s, q)) # 0
    THEN [path |-> SubSeq(s, q, normal_end(s, q) - 1), at |-> i - 1,
          end |-> tail_end(s, normal_end(s, q)), group |-> q - 1]
    ELSE NoMatch

\* ImagePatterns.MARKDOWN_IMAGE.match(s, i - 1)
markdown_image_at(s, i) == markdown_match_from(s, i, markdown_path_at(s, i))

\* ImagePatterns.MARKDOWN_IMAGE.finditer(s), from index i on
RECURSIVE markdown_image_finditer(_, _)
markdown_image_finditer(s, i) ==
    IF i > Len(s) THEN <<>>
    ELSE IF markdown_image_at(s, i) # NoMatch
    THEN <<markdown_image_at(s, i)>>
         \o markdown_image_finditer(s, markdown_image_at(s, i).end)
    ELSE markdown_image_finditer(s, i + 1)

\* word occurs at index i, in any case (re.IGNORECASE)
FoldAt(s, i, word) ==
    i + Len(word) - 1 <= Len(s) /\ PyLower(SubSeq(s, i, i + Len(word) - 1)) = word

\* the index of the quote that closes attr=["'][^"']+["'] written at j,
\* 0 when it is not written there
attr_close(s, j, attr) ==
    IF /\ FoldAt(s, j, attr \o <<"=">>)
       /\ j + Len(attr) + 1 <= Len(s)
       /\ s[j + Len(attr) + 1] \in Quotes
       /\ FirstIn(s, j + Len(attr) + 2, Quotes) > j + Len(attr) + 2
    THEN FirstIn(s, j + Len(attr) + 2, Quotes)
    ELSE 0

\* the index after the > that ends the tag whose attribute is written at j
attr_end(s, j, attr) ==
    IF attr_close(s, j, attr) # 0 /\ FirstIn(s, attr_close(s, j, attr) + 1, {">"}) # 0
    THEN FirstIn(s, attr_close(s, j, attr) + 1, {">"}) + 1
    ELSE 0

\* the places after other attributes (?:[^>]*?\s+)? where the attribute
\* completes the tag; w is where the blanks after the tag name end
attr_after_others(s, w, attr) ==
    {j \in (w + 1)..Len(s) :
        /\ s[j - 1] = " "
        /\ \A k \in w..(j - 1) : s[k] # ">"
        /\ attr_end(s, j, attr) # 0}

Lowest(S) == CHOOSE x \in S : \A y \in S : x <= y

\* the attribute the pattern takes: the first one after other attributes,
\* then the one right after the tag name; 0 when there is none
attr_at(s, w, attr) ==
    IF attr_after_others(s, w, attr) # {} THEN Lowest(attr_after_others(s, w, attr))
    ELSE IF attr_end(s, w, attr) # 0 THEN w
    ELSE 0

tag_match_from(s, i, j, attr) ==
    IF j = 0 THEN NoMatch
    ELSE [path |-> SubSeq(s, j + Len(attr) + 2, attr_close(s, j, attr) - 1), at |-> i - 1,
          end |-> attr_end(s, j, attr), group |-> j + Len(attr) + 1]

\* the match of <tag\s+(?:[^>]*?\s+)?attr=["'](?P<path>[^"']+)["'][^>]*/?>
\* at index i
tag_at(s, i, tag, attr) ==
    IF FoldAt(s, i, <<"<">> \o tag) /\ i + Len(tag) + 1 <= Len(s) /\ s[i + Len(tag) + 1] = " "
    THEN tag_match_from(s, i, attr_at(s, SkipBlanks(s, i + Len(tag) + 1), attr), attr)
    ELSE NoMatch

\* pattern.finditer(s) for ImagePatterns.HTML_IMG and HTML_VIDEO_POSTER
RECURSIVE tag_finditer(_, _, _, _)
tag_finditer(s, i, tag, attr) ==
    IF i > Len(s) THEN <<>>
    ELSE IF tag_at(s, i, tag, attr) # NoMatch
    THEN <<tag_at(s, i, tag, attr)>> \o tag_finditer(s, tag_at(s, i, tag, attr).end, tag, attr)
    ELSE tag_finditer(s, i + 1, tag, attr)

\* ImagePatterns.PATH_SUFFIX.sub("", path): a # followed to the end of the
\* path by word characters and hyphens goes, with what follows it
path_suffix_removed(path) ==
    IF \E h \in 1..(Len(path) - 1) :
           path[h] = "#" /\ \A k \in (h + 1)..Len(path) : path[k] \in WordChars \cup {"-"}
    THEN SubSeq(path, 1,
                (CHOOSE h \in 1..(Len(path) - 1) :
                     /\ path[h] = "#"
                     /\ \A k \in (h + 1)..Len(path) : path[k] \in WordChars \cup {"-"}) - 1)
    ELSE path

\* ImageChecker._clean_path
clean_path(path) == path_suffix_removed(PyStrip(path))

\* ctx.resolver: the default resolver or the Hexo resolver with its settings
DefaultResolver == [name |-> "default", post_dir |-> {}, asset_folder_per_post |-> FALSE]

HexoResolver(asset_folder_per_post) ==
    [name |-> "hexo", post_dir |-> {<<"_", "p", "o", "s", "t", "s">>},
     asset_folder_per_post |-> asset_folder_per_post]

\* ctx.resolver.resolve
resolve(resolver, path, source_file, root, fs) ==
    IF resolver.name = "hexo" THEN hexo_resolve(path, source_file, root, fs, resolver)
    ELSE default_resolve(path, source_file, root)

\* ctx.resolver.exists
exists(resolver, path, source_file, root, fs) ==
    IF resolver.name = "hexo" THEN hexo_exists(path, source_file, root, fs, resolver)
    ELSE default_exists(path, source_file, root, fs)

\* ctx.resolver.find_similar
find_similar(resolver, path, source_file, root, fs, threshold) ==
    IF resolver.name = "hexo"
    THEN hexo_find_similar(path, source_file, root, fs, resolver, threshold)
    ELSE default_find_similar(path, source_file, root, fs, threshold)

\* the files the suggestions of find_similar stand for, one per match
similar_matches(resolver, path, source_file, root, fs, threshold) ==
    IF resolver.name = "hexo"
    THEN hexo_matches(path, source_file, root, fs, resolver, threshold)
    ELSE default_matches(path, source_file, root, fs, threshold)

\* the Issue of a broken path, with the first suggestion when there is one
broken_image(path, file, line, column, similar) ==
    MkIssue(file, line, path, similar # <<>>,
            IF similar # <<>> THEN similar[1] ELSE <<>>, column)

\* ImageChecker._check_path: no issue or one
check_path(path, file, line, column, checker, resolver, root, fs) ==
    IF checker.ignore_external /\ is_external(clean_path(path)) THEN <<>>
    ELSE IF exists(resolver, clean_path(path), file, root, fs) THEN <<>>
    ELSE <<broken_image(path, file, line, column,
                        find_similar(resolver, clean_path(path), file, root, fs,
                                     checker.fuzzy_threshold))>>

\* column if column >= 0 else the offset of the match
column_of(original_line, path, fallback) ==
    IF PyFind(original_line, path) >= 0 THEN PyFind(original_line, path) ELSE fallback

\* ImageChecker._check_markdown_images, over the matches
RECURSIVE check_markdown_matches(_, _, _, _, _, _, _, _)
check_markdown_matches(matches, original_line, file, line, checker, resolver, root, fs) ==
    IF matches = <<>> THEN <<>>
    ELSE check_path(Head(matches).path, file, line,
                    column_of(original_line, Head(matches).path, Head(matches).at),
                    checker, resolver, root, fs)
         \o check_markdown_matches(Tail(matches), original_line, file, line, checker,
                                   resolver, root, fs)

\* ImageChecker._check_pattern_matches, over the matches
RECURSIVE check_pattern_matches(_, _, _, _, _, _, _, _)
check_pattern_matches(matches, original_line, file, line, checker, resolver, root, fs) ==
    IF matches = <<>> THEN <<>>
    ELSE check_path(Head(matches).path, file, line,
                    column_of(original_line, Head(matches).path, Head(matches).group),
                    checker, resolver, root, fs)
         \o check_pattern_matches(Tail(matches), original_line, file, line, checker,
                                  resolver, root, fs)

\* the three searches of one line that is not skipped
check_line_of(check_line, original_line, file, line, checker, resolver, root, fs) ==
    check_markdown_matches(markdown_image_finditer(check_line, 1), original_line, file, line,
                           checker, resolver, root, fs)
    \o (IF checker.check_html_img
        THEN check_pattern_matches(tag_finditer(check_line, 1, <<"i", "m", "g">>,
                                                <<"s", "r", "c">>),
                                   original_line, file, line, checker, resolver, root, fs)
        ELSE <<>>)
    \o (IF checker.check_video_poster
        THEN check_pattern_matches(tag_finditer(check_line, 1, <<"v", "i", "d", "e", "o">>,
                                                <<"p", "o", "s", "t", "e", "r">>),
                                   original_line, file, line, checker, resolver, root, fs)
        ELSE <<>>)

-----------------------------------------------------------------------------
(* The machine of SpecSite: a file tree with the project under /p, the       *)
(* documents of the project, the references a document may hold.             *)

\* a tree from its files: the directories are those the files lie in
MkTree(files) ==
    [files |-> files,
     dirs |-> {<<>>} \cup UNION {{SubSeq(f, 1, n) : n \in 0..(Len(f) - 1)} : f \in files}]

\* ctx.root
ProjectRoot == PurePath(<<"/", "p">>)

\* a post with its asset folder, pages, images under the root and a
\* directory /im and /h outside the project
PostTree ==
    MkTree({<<<<"p">>, <<"_", "p", "o", "s", "t", "s">>, <<"a", ".", "m", "d">>>>,
            <<<<"p">>, <<"_", "p", "o", "s", "t", "s">>, <<"a">>, <<"c", "a", "t", ".", "p">>>>,
            <<<<"p">>, <<"_", "p", "o", "s", "t", "s">>, <<"c", "o", "t", ".", "p">>>>,
            <<<<"p">>, <<"p", "g">>, <<"b", ".", "m", "d">>>>,
            <<<<"p">>, <<"c", ".", "m", "d">>>>,
            <<<<"p">>, <<"i", "m">>, <<"c", "u", "t", ".", "p">>>>,
            <<<<"i", "m">>, <<"c", "u", "t", ".", "p">>>>,
            <<<<"p">>, <<"h">>, <<"x", ".", "p">>>>,
            <<<<"h">>, <<"x", ".", "p">>>>,
            <<<<"p">>, <<"p", "g">>, <<"h">>, <<"x", ".", "p">>>>,
            <<<<"p">>, <<"_", "p", "o", "s", "t", "s">>, <<"h">>, <<"x", ".", "p">>>>})

\* no file in the asset folder of the post, a directory im in it
PlainTree ==
    MkTree({<<<<"p">>, <<"_", "p", "o", "s", "t", "s">>, <<"a", ".", "m", "d">>>>,
            <<<<"p">>, <<"_", "p", "o", "s", "t", "s">>, <<"c", "a", "t", ".", "p">>>>,
            <<<<"p">>, <<"_", "p", "o", "s", "t", "s">>, <<"a">>, <<"i", "m">>, <<"c", "a", "t", ".", "p">>>>,
            <<<<"p">>, <<"p", "g">>, <<"b", ".", "m", "d">>>>,
            <<<<"p">>, <<"c", ".", "m", "d">>>>,
            <<<<"p">>, <<"p", "g">>, <<"i", "m">>, <<"c", "o", "t", ".", "p">>>>,
            <<<<"p">>, <<"i", "m">>, <<"c", "u", "t", ".", "p">>>>,
            <<<<"p">>, <<"i", "m">>, <<"c", "a", "t", ".", "p">>>>})

\* images next to the documents only
FlatTree ==
    MkTree({<<<<"p">>, <<"_", "p", "o", "s", "t", "s">>, <<"a", ".", "m", "d">>>>,
            <<<<"p">>, <<"p", "g">>, <<"b", ".", "m", "d">>>>,
            <<<<"p">>, <<"c", ".", "m", "d">>>>,
            <<<<"p">>, <<"c", "a", "t", ".", "p">>>>,
            <<<<"p">>, <<"p", "g">>, <<"c", "u", "t", ".", "p">>>>,
            <<<<"p">>, <<"p", "g">>, <<"c", "a", "t", ".", "p">>>>,
            <<<<"p">>, <<"p", "g">>, <<"c", "o", "t", ".", "p">>>>})

Trees == {PostTree, PlainTree, FlatTree}

\* the documents: a post, a page in a directory, a page under the root
Docs ==
    {PurePath(<<"/", "p", "/", "_", "p", "o", "s", "t", "s", "/", "a", ".", "m", "d">>),
     PurePath(<<"/", "p", "/", "p", "g", "/", "b", ".", "m", "d">>),
     PurePath(<<"/", "p", "/", "c", ".", "m", "d">>)}

Resolvers == {DefaultResolver, HexoResolver(TRUE), HexoResolver(FALSE)}

\* ImageChecker.fuzzy_threshold, 0.6, as a fraction
fuzzy_threshold == <<6, 10>>

\* ImageChecker(ignore_external, skip_code_blocks), the other fields as the
\* class sets them
ImageChecker(ignore_external, skip_code_blocks) ==
    [ignore_external |-> ignore_external, skip_code_blocks |-> skip_code_blocks,
     skip_inline_code |-> TRUE, check_html_img |-> TRUE, check_video_poster |-> TRUE,
     fuzzy_threshold |-> fuzzy_threshold]

Checkers == {ImageChecker(e, c) : e \in BOOLEAN, c \in BOOLEAN}

\* the references handed to the resolver
Refs ==
    {<<"c", "a", "t", ".", "p">>,
     <<"c", "o", "t", ".", "p">>,
     <<"d", "o", "g", ".", "p">>,
     <<"i", "m", "/", "c", "a", "t", ".", "p">>,
     <<"i", "m", "m", "/", "c", "a", "t", ".", "p">>,
     <<".", "/", "c", "a", "t", ".", "p">>,
     <<"/", "i", "m", "/", "c", "a", "t", ".", "p">>,
     <<"/", "i", "m", "/", "c", "u", "t", ".", "p">>,
     <<"/", "%", "2", "F", "i", "m", "/", "c", "u", "t", ".", "p">>,
     <<".", ".", "/", "i", "m", "/", "c", "a", "t", ".", "p">>,
     <<"i", "m">>,
     <<"h", "t", "t", "p", ":", "/", "/", "h", "/", "x", ".", "p">>,
     <<"h", "t", "t", "p", "s", ":", "/", "/", "h", "/", "x", ".", "p">>,
     <<"/", "/", "h", "/", "x", ".", "p">>,
     <<"/", "c", "a", "t", ".", "p", "#", "t", "o", "p">>}

\* the lines a document is written from: a fence, an indented fence with a
\* language, an image that is in no tree, external images in the three
\* kinds of markup, an image with its path as alt text
FenceLine == <<BackQuote, BackQuote, BackQuote>>
IndentedFenceLine == <<" ", " ", BackQuote, BackQuote, BackQuote, "p">>
BrokenLine == <<"!", "[", "x", "]", "(", "d", "o", "g", ".", "p", ")">>
ExternalLine ==
    <<"!", "[", "]", "(", "/", "/", "h", "/", "x", ".", "p", ")", "<", "i", "m", "g", " ", "s", "r", "c", "=", "'", "h", "t", "t", "p", "s", ":", "/", "/", "h", "/", "x", ".", "p", "'", ">", "<", "v", "i", "d", "e", "o", " ", "p", "o", "s", "t", "e", "r", "=", "'", "h", "t", "t", "p", ":", "/", "/", "h", "/", "x", ".", "p", "'", ">">>

AltLine ==
    <<"!", "[", "c", "o", "t", ".", "p", "]", "(", "c", "o", "t", ".", "p", ")">>

DocLines == {FenceLine, IndentedFenceLine, BrokenLine, ExternalLine, AltLine}

-----------------------------------------------------------------------------
(* checkers/image.py: ImageChecker.check *)

\* the body of the loop of ImageChecker.check for a line that is not skipped
check_line(original_line, file, line, checker, resolver, root, fs) ==
    check_line_of(IF checker.skip_inline_code THEN inline_code_removed(original_line)
                  ELSE original_line,
                  original_line, file, line, checker, resolver, root, fs)

\* check_line is tabulated on the lines, documents, settings and trees of
\* SpecSite as line 1: the number of the line reaches nothing but the line
\* field of the issues; on any other input CheckLine computes it
CheckLineKeys == DocLines \X Docs \X Checkers \X Resolvers \X Trees

CheckLineTable ==
    Tabulated([k \in CheckLineKeys |->
                  check_line(k[1], k[2], 1, k[3], k[4], ProjectRoot, k[5])])

CheckLine(original_line, file, line, checker, resolver, root, fs) ==
    IF <<original_line, file, checker, resolver, fs>> \in CheckLineKeys /\ root = ProjectRoot
    THEN [i \in 1..Len(CheckLineTable[<<original_line, file, checker, resolver, fs>>]) |->
             [CheckLineTable[<<original_line, file, checker, resolver, fs>>][i]
                 EXCEPT !.line = line]]
    ELSE check_line(original_line, file, line, checker, resolver, root, fs)

\* the loop with a fence that opens a block and never closes one
RECURSIVE check_lines_never_closing(_, _, _, _, _, _, _, _)
check_lines_never_closing(lines, k, in_code_block, file, checker, resolver, root, fs) ==
    IF k > Len(lines) THEN <<>>
    ELSE IF checker.skip_code_blocks /\ code_fence(lines[k])
    THEN check_lines_never_closing(lines, k + 1, TRUE, file, checker, resolver, root, fs)
    ELSE IF in_code_block
    THEN check_lines_never_closing(lines, k + 1, in_code_block, file, checker, resolver,
                                   root, fs)
    ELSE CheckLine(lines[k], file, k, checker, resolver, root, fs)
         \o check_lines_never_closing(lines, k + 1, in_code_block, file, checker, resolver,
                                      root, fs)

\* the loop of ImageChecker.check from line k on, in_code_block as the lines
\* before k left it
RECURSIVE check_lines(_, _, _, _, _, _, _, _)
check_lines(lines, k, in_code_block, file, checker, resolver, root, fs) ==
    IF k > Len(lines) THEN <<>>
    ELSE IF checker.skip_code_blocks /\ code_fence(lines[k])
    THEN check_lines(lines, k + 1, ~in_code_block, file, checker, resolver, root, fs)
    ELSE IF in_code_block
    THEN check_lines(lines, k + 1, in_code_block, file, checker, resolver, root, fs)
    ELSE CheckLine(lines[k], file, k, checker, resolver, root, fs)
         \o check_lines(lines, k + 1, in_code_block, file, checker, resolver, root, fs)

\* ImageChecker.check
check(file, content, checker, resolver, root, fs) ==
    check_lines(SplitLines(content), 1, FALSE, file, checker, resolver, root, fs)

-----------------------------------------------------------------------------
(* The outputs of SpecSite before any call. *)

NoRes ==
    [op |-> "none", path |-> <<>>, resolved |-> NoPath, exists |-> FALSE,
     similar |-> <<>>, matches |-> <<>>]

NoImg == [called |-> FALSE, issues |-> <<>>]

NoDoc == [file |-> NoPath, lines |-> <<>>, resolver |-> DefaultResolver,
          checker |-> ImageChecker(TRUE, TRUE)]

SiteIdle == site = MkTree({}) /\ doc = NoDoc /\ resOut = NoRes /\ imgOut = NoImg

-----------------------------------------------------------------------------
(* The fix command and the undo command on a small project. *)

\* what the user may type at the prompt, and the two ways input() can raise
Inputs ==
    {Line(t) : t \in {<<"y">>, <<"Y", "E", "S">>, <<"n">>, <<" ", "N", "o">>, <<>>,
                      <<"a">>, <<"A", "l", "l", " ">>, <<"q">>, <<"Q", "U", "I", "T">>,
                      <<"d">>, <<"d", "i", "f", "f">>, <<"?">>, <<"h", "e", "l", "p">>,
                      <<"z">>}}
    \cup {[kind |-> "eof", text |-> <<>>], [kind |-> "interrupt", text |-> <<>>]}

\* cmd_fix: `return 0` whatever the fixer did, its session is not looked at;
\* an exception of the fixer is not caught and ends the interpreter with status 1
cmd_fix(raised) == IF raised THEN 1 ELSE 0

NoSession == [id |-> -1, results |-> <<>>, completed |-> FALSE]
NoUndo == [called |-> FALSE, ok |-> FALSE, tiers |-> <<>>, named |-> <<>>, name |-> <<>>,
           deleted |-> FALSE, exit |-> 0]

\* the record kept of one call of PatchFixer.fix
RunOf(arg, dry_run, d, out) ==
    [issues |-> arg, dry_run |-> dry_run, before |-> d,
     session |-> out.session, computed |-> out.computed, saved |-> out.saved,
     name |-> out.name, apply |-> out.apply, tiers |-> out.tiers, after |-> out.disk]

LineIdle == fxLine = <<>> /\ fxFix = MkFix(<<>>, <<>>, 1, None, None)
                /\ fxOut = <<>> /\ fxDone = FALSE

ClockIdle == clock = 0 /\ listed = <<>>
PromptIdle == typed = <<>> /\ prAction = "none"
AuxIdle == ClockIdle /\ PromptIdle /\ ScanIdle /\ SiteIdle

Init ==
    /\ LineIdle
    /\ AuxIdle
    /\ disk \in Disks
    /\ disk0 = disk
    /\ patchDir = NoPatchDir
    /\ pc = "idle"
    /\ cmdIssues \in IssueLists
    /\ strategy = "none"
    /\ dryRun = FALSE
    /\ cmdSession = NoSession
    /\ loop = NoLoop
    /\ runs = <<>>
    /\ undone = NoUndo
    /\ fixExit = None

\* `fix --all`: PatchFixer.fix(issues, root, dry_run)
PatchFixed(dry, out) ==
    /\ strategy' = "patch"
    /\ dryRun' = dry
    /\ cmdSession' = out.session
    /\ disk' = out.disk
    /\ patchDir' = out.patchDir
    /\ runs' = Append(runs, RunOf(cmdIssues, dry, disk, out))
    /\ pc' = IF out.raised THEN "raised" ELSE "fixed"
    /\ fixExit' = cmd_fix(out.raised)

PatchFix ==
    /\ pc = "idle"
    /\ \E dry \in BOOLEAN, git \in ToolStates, ptool \in ToolStates :
         PatchFixed(dry, fix(cmdIssues, dry, disk, patchDir, clock, git, ptool))
    /\ UNCHANGED <<lineVars, auxVars, disk0, cmdIssues, loop, undone>>

\* the part of InteractiveFixer.fix after the loop: `if to_fix:` ... complete
Finished(lp, results, called, out) ==
    /\ loop' = lp
    /\ disk' = IF called THEN out.disk ELSE disk
    /\ patchDir' = IF called THEN out.patchDir ELSE patchDir
    /\ runs' = IF called
               THEN Append(runs, RunOf(lp.to_fix, FALSE, disk, out))
               ELSE runs
    /\ cmdSession' = IF called /\ out.raised
                  THEN [cmdSession EXCEPT !.results = results]
                  ELSE complete([cmdSession EXCEPT !.results =
                                    IF called THEN mark_applied(results) ELSE results])
    /\ pc' = IF called /\ out.raised THEN "raised" ELSE "fixed"
    /\ fixExit' = cmd_fix(called /\ out.raised)

\* the part after the loop with `if dry_run` left out: the patch strategy is
\* called in a dry run too
Finish_in_dry_run(lp, results, dry, git, ptool) ==
    Finished(lp, results, lp.to_fix # <<>>,
             fix(lp.to_fix, FALSE, disk, patchDir, clock, git, ptool))

Finish(lp, results, dry, git, ptool) ==
    Finished(lp, results, lp.to_fix # <<>> /\ ~dry,
             fix(lp.to_fix, FALSE, disk, patchDir, clock, git, ptool))

\* `fix`: InteractiveFixer.fix up to the first input(), or to its return when
\* no issue is fixable
InteractiveStart ==
    /\ pc = "idle"
    /\ \E dry \in BOOLEAN :
         LET fixable == filter_fixable(cmdIssues)
         IN /\ strategy' = "interactive"
            /\ dryRun' = dry
            /\ IF fixable = <<>>
               THEN /\ cmdSession' = complete(NewSession(clock))
                    /\ loop' = LoopStart(fixable)
                    /\ pc' = "fixed"
                    /\ fixExit' = cmd_fix(FALSE)
               ELSE /\ cmdSession' = NewSession(clock)
                    /\ loop' = show_issue(LoopStart(fixable))
                    /\ pc' = "prompt"
                    /\ fixExit' = fixExit
    /\ UNCHANGED <<lineVars, auxVars, disk, disk0, patchDir, cmdIssues, runs, undone>>

\* input() returns something that does not decide the issue: diff, help or an
\* unknown option; the same issue is prompted again
InteractiveRetry ==
    /\ pc = "prompt"
    /\ loop.retries < MaxRetry
    /\ \E inp \in Inputs :
         /\ prompt_action(inp) = "again"
         /\ loop' = [loop EXCEPT !.retries = @ + 1]
    /\ UNCHANGED <<lineVars, auxVars, disk, disk0, patchDir, pc, cmdIssues, strategy, dryRun,
                   cmdSession, runs, undone, fixExit>>

\* input() decides the issue and the loop blocks at the next prompt
Answered(st) ==
    /\ ~st.lp.ended
    /\ loop' = st.lp
    /\ cmdSession' = [cmdSession EXCEPT !.results = st.results]

InteractiveAnswer ==
    /\ pc = "prompt"
    /\ \E action \in {prompt_action(inp) : inp \in Inputs} \ {"again"} :
         Answered(loop_step(loop, cmdSession.results, action))
    /\ UNCHANGED <<lineVars, auxVars, disk, disk0, patchDir, pc, cmdIssues, strategy, dryRun,
                   runs, undone, fixExit>>

\* input() decides the issue and the loop ends (last issue, accept-all or
\* quit): the accepted fixes are applied and the session returned
Ended(st) ==
    /\ st.lp.ended
    /\ \E git \in ToolStates, ptool \in ToolStates :
         Finish(st.lp, st.results, dryRun, git, ptool)

InteractiveFinish ==
    /\ pc = "prompt"
    /\ \E action \in {prompt_action(inp) : inp \in Inputs} \ {"again"} :
         Ended(loop_step(loop, cmdSession.results, action))
    /\ UNCHANGED <<lineVars, auxVars, disk0, cmdIssues, strategy, dryRun, undone>>

\* `undo`: PatchFixer.undo on a saved patch
Undone(art, u) ==
    /\ disk' = u.disk
    /\ undone' = [called |-> TRUE, ok |-> u.ok, tiers |-> u.tiers, named |-> art.name,
                  name |-> art.name, deleted |-> FALSE, exit |-> IF u.ok THEN 0 ELSE 1]

Undo ==
    /\ pc = "fixed"
    /\ \E art \in patchDir.files, git \in ToolStates, ptool \in ToolStates :
         Undone(art, undo(disk, art, git, ptool))
    /\ pc' = "undone"
    /\ UNCHANGED <<lineVars, auxVars, disk0, patchDir, cmdIssues, strategy, dryRun, cmdSession,
                   loop, runs, fixExit>>

Next ==
    \/ PatchFix
    \/ InteractiveStart
    \/ InteractiveRetry
    \/ InteractiveAnswer
    \/ InteractiveFinish
    \/ Undo

Spec == Init /\ [][Next]_vars

-----------------------------------------------------------------------------
(* SpecLine: Fix.apply_to_line as a pure function of bounded inputs. *)

LineChars == {"a", "b"}

\* the regression case of the tests: `![alt](old.png)` -> `![alt](new.png)`
AltOld == <<"!", "[", "a", "l", "t", "]", "(", "o", "l", "d", ".", "p", "n", "g", ")">>
AltNew == <<"!", "[", "a", "l", "t", "]", "(", "n", "e", "w", ".", "p", "n", "g", ")">>
AltTag == <<"!", "[", "a", "l", "t", "]">>

LineInputs ==
    [line : SeqsUpTo(LineChars, MaxLineLen),
     fix : {MkFix(o, r, 1, c, None) :
                o \in SeqsUpTo(LineChars, MaxTextLen),
                r \in SeqsUpTo(LineChars, MaxTextLen),
                c \in {None} \cup (0..(MaxLineLen + 1))}]
    \cup
    [line : {AltOld, <<"a">> \o AltOld \o <<"b">>},
     fix : {MkFix(AltOld, AltNew, 1, c, None) : c \in {None, 0, 1}}]

EngineIdle ==
    /\ disk = [n \in FileNames |-> Absent]
    /\ disk0 = disk
    /\ patchDir = NoPatchDir
    /\ pc = "idle"
    /\ cmdIssues = <<>>
    /\ strategy = "none"
    /\ dryRun = FALSE
    /\ cmdSession = NoSession
    /\ loop = NoLoop
    /\ runs = <<>>
    /\ undone = NoUndo
    /\ fixExit = None

InitLine ==
    /\ \E inp \in LineInputs : fxLine = inp.line /\ fxFix = inp.fix
    /\ fxOut = <<>>
    /\ fxDone = FALSE
    /\ EngineIdle
    /\ AuxIdle

ApplyToLine ==
    /\ ~fxDone
    /\ fxOut' = apply_to_line(fxFix, fxLine)
    /\ fxDone' = TRUE
    /\ UNCHANGED <<fxLine, fxFix, engineVars, auxVars>>

NextLine == ApplyToLine

SpecLine == InitLine /\ [][NextLine]_vars

-----------------------------------------------------------------------------
(* SpecDir: several commands one after the other on one project, with the   *)
(* clock: fix --all, undo (with its question), undo --list.                 *)

MaxClock == 1
MaxSessions == 2

\* the issues the scans of SpecDir find: one of f, one of g
DirIssueLists ==
    {<<MkIssue("f", 2, <<"b">>, TRUE, <<"x">>, None)>>,
     <<MkIssue("g", 1, <<"a">>, TRUE, <<"x">>, None)>>}

NoName == <<>>

\* a name given with `undo <patch>` that is no file of the directory
StrayName == <<"x">> \o PatchSuffix

\* PatchFixer.get_latest_patch
get_latest_patch(pd) ==
    IF list_patches(pd) = <<>> THEN NoName ELSE list_patches(pd)[1]

\* `choice in ("y", "yes")` on the answer to "Delete patch file? [y/N]"
delete_confirmed(answer) ==
    /\ answer.kind = "line"
    /\ PyLower(PyStrip(answer.text)) \in {<<"y">>, <<"y", "e", "s">>}

\* cmd_undo returns 1 before PatchFixer.undo is called
undo_refused(d, pd, name) ==
    [disk |-> d, patchDir |-> pd, called |-> FALSE, ok |-> FALSE, tiers |-> <<>>,
     name |-> name, deleted |-> FALSE, exit |-> 1]

\* cmd_undo after fixer.undo has returned u: the question, patch_file.unlink()
undo_asked(u, pd, name, answer) ==
    [disk |-> u.disk,
     patchDir |-> IF u.ok /\ delete_confirmed(answer)
                  THEN [pd EXCEPT !.files = {x \in @ : x.name # name}]
                  ELSE pd,
     called |-> TRUE, ok |-> u.ok, tiers |-> u.tiers, name |-> name,
     deleted |-> u.ok /\ delete_confirmed(answer),
     exit |-> IF u.ok THEN 0 ELSE 1]

\* cmd_undo once patch_file is known
undo_file(d, pd, name, git, ptool, answer) ==
    IF name = NoName \/ ~\E x \in pd.files : x.name = name
    THEN undo_refused(d, pd, name)
    ELSE undo_asked(undo(d, CHOOSE x \in pd.files : x.name = name, git, ptool),
                    pd, name, answer)

\* cmd_undo(args) without --list: args.patch is named, or NoName for the latest
cmd_undo(d, pd, named, git, ptool, answer) ==
    undo_file(d, pd, IF named # NoName THEN named ELSE get_latest_patch(pd),
              git, ptool, answer)

\* the clock goes on by a second
Tick ==
    /\ clock < MaxClock
    /\ clock' = clock + 1
    /\ UNCHANGED <<lineVars, engineVars, listed, promptVars, scanVars, siteVars>>

\* the command has ended; the next one is started, its scan finding issues
NextCommand ==
    /\ pc \in {"fixed", "raised", "undone"}
    /\ Len(runs) < MaxSessions
    /\ pc' = "idle"
    /\ cmdIssues' \in DirIssueLists
    /\ undone' = NoUndo
    /\ fixExit' = None
    /\ UNCHANGED <<lineVars, auxVars, disk, disk0, patchDir, strategy, dryRun,
                   cmdSession, loop, runs>>

\* `undo --list`
ListPatches ==
    /\ pc \in {"fixed", "undone"}
    /\ listed' = list_patches(patchDir)
    /\ UNCHANGED <<lineVars, engineVars, clock, promptVars, scanVars, siteVars>>

UndoDone(named, r) ==
    /\ disk' = r.disk
    /\ patchDir' = r.patchDir
    /\ undone' = [called |-> r.called, ok |-> r.ok, tiers |-> r.tiers, named |-> named,
                  name |-> r.name, deleted |-> r.deleted, exit |-> r.exit]

\* `undo` or `undo <patch>`, and the answer to its question
UndoCmd ==
    /\ pc = "fixed"
    /\ \E named \in {x.name : x \in patchDir.files} \cup {NoName, StrayName},
          git \in ToolStates, ptool \in ToolStates,
          answer \in {Line(<<"Y", "E", "S">>), Line(<<>>), [kind |-> "eof", text |-> <<>>]} :
         UndoDone(named, cmd_undo(disk, patchDir, named, git, ptool, answer))
    /\ pc' = "undone"
    /\ UNCHANGED <<lineVars, auxVars, disk0, cmdIssues, strategy, dryRun, cmdSession,
                   loop, runs, fixExit>>

InitDir ==
    /\ LineIdle
    /\ AuxIdle
    /\ disk = [n \in FileNames |-> IF n = "f" THEN MkFile(Txt5) ELSE MkFile(Txt2)]
    /\ disk0 = disk
    /\ patchDir = NoPatchDir
    /\ pc = "idle"
    /\ cmdIssues \in DirIssueLists
    /\ strategy = "none"
    /\ dryRun = FALSE
    /\ cmdSession = NoSession
    /\ loop = NoLoop
    /\ runs = <<>>
    /\ undone = NoUndo
    /\ fixExit = None

NextDir ==
    \/ Tick
    \/ PatchFix
    \/ NextCommand
    \/ ListPatches
    \/ UndoCmd

SpecDir == InitDir /\ [][NextDir]_vars

-----------------------------------------------------------------------------
(* SpecBatch: the fix command on a document whose first line holds two       *)
(* references, the issues being those the image checker reports for such a  *)
(* line: each with the column of its path.                                  *)

TxtTwoRefs == <<"a", "c", "b", NL, "d", NL>>
TxtSameRefs == <<"a", "c", "a", NL, "d", NL>>

BatchDisks ==
    {[n \in FileNames |-> IF n = "f" THEN MkFile(t) ELSE Absent] :
        t \in {TxtTwoRefs, TxtSameRefs}}

\* the path at column 0 and the path at column 2 of line 1, replacements that
\* are longer than the path and as long as it
BatchPool ==
    {MkIssue("f", 1, <<"a">>, TRUE, r, 0) : r \in {<<"x", "x">>, <<"x">>}}
    \cup {MkIssue("f", 1, o, TRUE, r, 2) : o \in {<<"a">>, <<"b">>}, r \in {<<"y">>, <<"y", "y">>}}

BatchIssueLists == {s \in SeqsUpTo(BatchPool, MaxIssues) : IsInjective(s)}

InitBatch ==
    /\ LineIdle
    /\ AuxIdle
    /\ disk \in BatchDisks
    /\ disk0 = disk
    /\ patchDir = NoPatchDir
    /\ pc = "idle"
    /\ cmdIssues \in BatchIssueLists
    /\ strategy = "none"
    /\ dryRun = FALSE
    /\ cmdSession = NoSession
    /\ loop = NoLoop
    /\ runs = <<>>
    /\ undone = NoUndo
    /\ fixExit = None

SpecBatch == InitBatch /\ [][Next]_vars

-----------------------------------------------------------------------------
(* SpecScan: one CheckContext and its runner; files are read, edited behind  *)
(* its back, scanned, and the cache is cleared.                              *)

\* a text shorter than the window of a snapshot and one that is longer
ScanTexts == {<<"a", NL, "b", NL>>, <<"b", NL, "a", NL, "a", NL, "b", NL, "a">>}

ScanFiles == {MkFile(t) : t \in ScanTexts} \cup {Absent}

\* what a file of the project may hold: g has the shorter text when it is there
ScanFilesOf(p) == IF p = "f" THEN ScanFiles ELSE {MkFile(<<"a", NL, "b", NL>>), Absent}

\* the (checker, file) pairs where check may raise
RaisingPairs == {<<"c1", "f">>, <<"c2", "f">>, <<"c1", "g">>}

ReadDone(raw, r) ==
    /\ ctx' = r.ctx
    /\ readOut' = [called |-> TRUE, path |-> resolve_path(raw), raised |-> r.raised,
                   text |-> r.text, disk |-> disk[resolve_path(raw)].text,
                   nth |-> r.ctx.calls[resolve_path(raw)],
                   first |-> r.ctx.first[resolve_path(raw)],
                   reads |-> r.ctx.reads[resolve_path(raw)]]

\* a caller (a checker, a hook, the reporter) reads a file through the context
ScanRead ==
    /\ \E raw \in RawPaths, unread \in SUBSET FileNames :
         /\ ctx.calls[resolve_path(raw)] < MaxReads
         /\ ReadDone(raw, read_file(ctx, disk, unread, raw))
    /\ scanOut' = NoScan
    /\ UNCHANGED <<lineVars, engineVars, clockVars, promptVars, siteVars>>

\* somebody writes or deletes a file of the project
ScanEdit ==
    /\ \E p \in FileNames :
       \E file \in ScanFilesOf(p) :
         /\ disk[p] # file
         /\ disk' = [disk EXCEPT ![p] = file]
    /\ UNCHANGED <<lineVars, auxVars, disk0, patchDir, pc, cmdIssues, strategy, dryRun,
                   cmdSession, loop, runs, undone, fixExit>>

\* CheckContext.clear_cache()
ScanClear ==
    /\ ctx # NewContext
    /\ ctx' = clear_cache(ctx)
    /\ UNCHANGED <<lineVars, engineVars, clockVars, promptVars, readOut, scanOut, siteVars>>

\* what _check_file is given for a collected file: the cached content, what
\* is on disk, or nothing
SeenBy(c, d, unread, p) ==
    IF ~d[p].exists THEN [collected |-> FALSE, read |-> FALSE, text |-> <<>>]
    ELSE IF p \in DOMAIN c.file_cache
    THEN [collected |-> TRUE, read |-> TRUE, text |-> c.file_cache[p]]
    ELSE IF p \in unread THEN [collected |-> TRUE, read |-> FALSE, text |-> <<>>]
    ELSE [collected |-> TRUE, read |-> TRUE, text |-> d[p].text]

RunDone(r, unread, raising) ==
    /\ ctx' = r.ctx
    /\ scanOut' = [called |-> TRUE, raised |-> r.raised, issues |-> r.issues,
                   raising |-> raising,
                   seen |-> [p \in FileNames |-> SeenBy(ctx, disk, unread, p)]]

\* CheckRunner.run()
ScanRun ==
    /\ \A p \in FileNames : ctx.calls[p] < MaxReads
    /\ \E unread \in SUBSET FileNames, raising \in SUBSET RaisingPairs :
         RunDone(run(ctx, disk, unread, raising), unread, raising)
    /\ readOut' = NoRead
    /\ UNCHANGED <<lineVars, engineVars, clockVars, promptVars, siteVars>>

InitScan ==
    /\ LineIdle
    /\ AuxIdle
    /\ disk \in {d \in [FileNames -> ScanFiles] : \A p \in FileNames : d[p] \in ScanFilesOf(p)}
    /\ disk0 = disk
    /\ patchDir = NoPatchDir
    /\ pc = "idle"
    /\ cmdIssues = <<>>
    /\ strategy = "none"
    /\ dryRun = FALSE
    /\ cmdSession = NoSession
    /\ loop = NoLoop
    /\ runs = <<>>
    /\ undone = NoUndo
    /\ fixExit = None

NextScan ==
    \/ ScanRead
    \/ ScanEdit
    \/ ScanClear
    \/ ScanRun

SpecScan == InitScan /\ [][NextScan]_vars

-----------------------------------------------------------------------------
(* SpecPrompt: one call of InteractiveFixer._prompt_action, input by input. *)

MaxTyped == 3

\* one pass of `while True`: input() returns (or raises) inp; the match either
\* returns an action or falls through and the loop goes round
PromptInput ==
    /\ prAction = "none"
    /\ Len(typed) < MaxTyped
    /\ \E inp \in Inputs :
         /\ typed' = Append(typed, inp)
         /\ prAction' = IF prompt_action(inp) = "again" THEN "none"
                        ELSE prompt_action(inp)
    /\ UNCHANGED <<lineVars, engineVars, clockVars, scanVars, siteVars>>

InitPrompt == LineIdle /\ EngineIdle /\ AuxIdle

NextPrompt == PromptInput

SpecPrompt == InitPrompt /\ [][NextPrompt]_vars

-----------------------------------------------------------------------------
(* SpecSite: a document of a project on a machine; the resolver is asked     *)
(* about references, lines are written to the document and the image         *)
(* checker checks it.                                                        *)

Resolved(path) ==
    [op |-> "resolve", path |-> path,
     resolved |-> resolve(doc.resolver, path, doc.file, ProjectRoot, site),
     exists |-> exists(doc.resolver, path, doc.file, ProjectRoot, site),
     similar |-> <<>>, matches |-> <<>>]

\* resolver.resolve(path, file, ctx) and resolver.exists(path, file, ctx)
Resolve ==
    /\ doc.lines = <<>>
    /\ resOut = NoRes
    /\ \E path \in Refs : resOut' = Resolved(path)
    /\ UNCHANGED <<lineVars, engineVars, clockVars, promptVars, scanVars, site, doc, imgOut>>

Similar(path) ==
    [op |-> "find_similar", path |-> path, resolved |-> NoPath, exists |-> FALSE,
     similar |-> find_similar(doc.resolver, path, doc.file, ProjectRoot, site,
                              fuzzy_threshold),
     matches |-> similar_matches(doc.resolver, path, doc.file, ProjectRoot, site,
                                 fuzzy_threshold)]

\* resolver.find_similar(path, file, ctx)
FindSimilar ==
    /\ doc.lines = <<>>
    /\ resOut = NoRes
    /\ \E path \in Refs : resOut' = Similar(path)
    /\ UNCHANGED <<lineVars, engineVars, clockVars, promptVars, scanVars, site, doc, imgOut>>

\* the author adds a line to the document
WriteLine ==
    /\ resOut = NoRes
    /\ Len(doc.lines) < MaxDocLines
    /\ \E l \in DocLines : doc' = [doc EXCEPT !.lines = Append(@, l)]
    /\ imgOut' = NoImg
    /\ UNCHANGED <<lineVars, engineVars, clockVars, promptVars, scanVars, site, resOut>>

\* ImageChecker.check(file, content, ctx) on the document as it is
Check ==
    /\ resOut = NoRes
    /\ doc.lines # <<>>
    /\ imgOut' = [called |-> TRUE,
                  issues |-> check(doc.file, JoinWith(<<NL>>, doc.lines), doc.checker,
                                   doc.resolver, ProjectRoot, site)]
    /\ UNCHANGED <<lineVars, engineVars, clockVars, promptVars, scanVars, site, doc, resOut>>

InitSite ==
    /\ LineIdle
    /\ EngineIdle
    /\ ClockIdle
    /\ PromptIdle
    /\ ScanIdle
    /\ site \in Trees
    /\ doc \in [file : Docs, lines : {<<>>}, resolver : Resolvers, checker : Checkers]
    /\ resOut = NoRes
    /\ imgOut = NoImg

NextSite ==
    \/ Resolve
    \/ FindSimilar
    \/ WriteLine
    \/ Check

SpecSite == InitSite /\ [][NextSite]_vars

-----------------------------------------------------------------------------
(* Properties of Fix.apply_to_line (SpecLine). *)

-----------------------------------------------------------------------------
(* Properties of the fix and undo commands (Spec). *)

Range(seq) == {seq[x] : x \in 1..Len(seq)}

\* the orders a list of distinct issues can be supplied in
OrdersOf(seq) ==
    {p \in SeqsUpTo(Range(seq), Len(seq)) :
        Len(p) = Len(seq) /\ IsInjective(p) /\ Range(p) = Range(seq)}

\* the issues of a list that name a line of the text
InRange(issues, text) ==
    {i \in Range(issues) : 1 <= i.line /\ i.line <= Len(SplitLines(text))}

\* C3: for a file whose fixable issues lie on pairwise distinct lines, the
\* content _fix_file computes has on every targeted line that issue's own
\* replacement and on every other line the original text, and it is the same
\* for every order the issues can be supplied in.
C3_OrderIndependent ==
    \A x \in 1..Len(runs) : \A k \in 1..Len(runs[x].computed) :
        LET r == runs[x]
            c == r.computed[k]
            iss == IssuesOf(r.issues, c.file)
            old == SplitLines(c.old)
            new == SplitLines(c.new)
            at(l) == {i \in Range(iss) : i.line = l}
        IN (r.before[c.file].exists
            /\ \A i, j \in Range(iss) : i.line = j.line => i = j)
           => /\ Len(new) = Len(old)
              /\ \A l \in 1..Len(old) :
                   IF at(l) = {} THEN new[l] = old[l]
                   ELSE \A i \in at(l) : new[l] = apply_to_line(get_fix(i), old[l])
              /\ \A p \in OrdersOf(iss) : FixFile(r.before, c.file, p).fixed = c.new

\* issues on lines 2 and 4 supplied in that order: both lines replaced, lines
\* 1, 3 and 5 as they were
C3_Witness ==
    \E x \in 1..Len(runs) : \E k \in 1..Len(runs[x].computed) :
        /\ Len(runs[x].issues) = 2
        /\ runs[x].issues[1].line = 2
        /\ runs[x].issues[2].line = 4
        /\ runs[x].computed[k].file = "f"
        /\ runs[x].computed[k].old = Txt5
        /\ runs[x].computed[k].new =
               <<"a", NL, "x", NL, "c", NL, "y", "y", NL, "e", NL>>

\* C5: in a dry run of either strategy no file is modified, no patch
\* directory or patch file is created, no apply tier is invoked and no result
\* is marked applied, while the session records the accept/skip outcome of
\* every issue handled.
C5_DryRunWritesNothing ==
    (strategy # "none" /\ dryRun) =>
        /\ disk = disk0
        /\ patchDir = NoPatchDir
        /\ \A x \in 1..Len(runs) :
             /\ ~runs[x].saved
             /\ runs[x].apply = "none"
             /\ runs[x].tiers = <<>>
             /\ runs[x].after = runs[x].before
        /\ strategy = "interactive" => runs = <<>>
        /\ \A x \in 1..Len(cmdSession.results) :
             /\ ~cmdSession.results[x].applied
             /\ cmdSession.results[x].action \in {"accept", "skip"}
        /\ (pc = "fixed" /\ (strategy = "patch" \/ "quit" \notin Range(loop.answers)))
             => /\ cmdSession.completed
                /\ Len(cmdSession.results) = Len(filter_fixable(cmdIssues))
                /\ \A i \in Range(filter_fixable(cmdIssues)) :
                     \E x \in 1..Len(cmdSession.results) :
                         cmdSession.results[x].issue = i

\* a dry run of the patch strategy that computed a diff, and of the
\* interactive strategy that accepted a fix
C5_Witness ==
    /\ dryRun
    /\ pc = "fixed"
    /\ \E x \in 1..Len(cmdSession.results) : cmdSession.results[x].action = "accept"
    /\ \/ strategy = "patch" /\ \E x \in 1..Len(runs) :
              \E k \in 1..Len(runs[x].computed) : runs[x].computed[k].patch # <<>>
       \/ strategy = "interactive" /\ loop.to_fix # <<>>

\* the prompts 1..k, in order
FirstPrompts(k) == [j \in 1..k |-> j]

\* C9: once quit is answered (or input ends or is interrupted) at the prompt
\* of the k-th fixable issue, the loop has ended, only the issues 1..k were
\* ever displayed, and the session holds exactly the outcomes of the issues
\* 1..k-1 in their order: the k-th and the later issues are not in it.
C9_QuitStops ==
    LET a == loop.answers
        k == Len(a)
        res == cmdSession.results
    IN /\ \A j \in 1..k : a[j] = "quit" => j = k
       /\ (strategy = "interactive" /\ k > 0 /\ a[k] = "quit") =>
            /\ loop.ended
            /\ pc # "prompt"
            /\ loop.shown = FirstPrompts(k)
            /\ Len(res) = k - 1
            /\ \A j \in 1..(k - 1) :
                 /\ res[j].issue = loop.fixable[j]
                 /\ res[j].action = a[j]
            /\ \A j \in k..Len(loop.fixable) :
                 \A x \in 1..Len(res) : res[x].issue # loop.fixable[j]

\* quit at the first of two fixable issues: the second was never displayed
\* and the session is empty
C9_Witness ==
    /\ strategy = "interactive"
    /\ pc = "fixed"
    /\ Len(loop.fixable) = 2
    /\ loop.answers = <<"quit">>
    /\ loop.shown = <<1>>
    /\ cmdSession.results = <<>>

\* C10: once accept-all is answered at the k-th fixable issue, the loop has
\* ended without a further prompt, and the session holds the outcomes of the
\* issues before k followed by an accept for the k-th and for every later
\* fixable issue, in order; all of them are handed on to be fixed.
C10_AcceptAll ==
    LET a == loop.answers
        k == Len(a)
        n == Len(loop.fixable)
        res == cmdSession.results
    IN /\ \A j \in 1..k : a[j] = "accept_all" => j = k
       /\ loop.accept_all <=> (k > 0 /\ a[k] = "accept_all")
       /\ loop.accept_all =>
            /\ loop.ended
            /\ pc # "prompt"
            /\ loop.shown = FirstPrompts(k)
            /\ Len(res) = n
            /\ \A j \in 1..(k - 1) :
                 /\ res[j].issue = loop.fixable[j]
                 /\ res[j].action = a[j]
            /\ \A j \in k..n :
                 /\ res[j].issue = loop.fixable[j]
                 /\ res[j].action = "accept"
            /\ loop.to_fix =
                 SelectSeq(loop.fixable,
                           LAMBDA i : \E j \in 1..n :
                               res[j].issue = i /\ res[j].action = "accept")

\* accept-all at the first of two fixable issues: one prompt, two accepts
C10_Witness ==
    /\ strategy = "interactive"
    /\ pc = "fixed"
    /\ Len(loop.fixable) = 2
    /\ loop.answers = <<"accept_all">>
    /\ loop.shown = <<1>>
    /\ Len(cmdSession.results) = 2
    /\ \A x \in 1..2 : cmdSession.results[x].action = "accept"

\* what a tier log tells of a tool: the outcomes it was seen with
SeenOf(tiers, tool) == {tiers[x].outcome : x \in {y \in 1..Len(tiers) : tiers[y].tier = tool}}

\* no tool failed for a reason outside the model, and the two commands saw
\* each tool in the same condition (installed or not)
SameWorkingTools(t1, t2) ==
    /\ \A x \in 1..Len(t1) : t1[x].outcome # "fail"
    /\ \A x \in 1..Len(t2) : t2[x].outcome # "fail"
    /\ \A tool \in {"git", "patch"} :
         ~("missing" \in SeenOf(t1, tool) /\ SeenOf(t2, tool) \ {"missing"} # {})
         /\ ~("missing" \in SeenOf(t2, tool) /\ SeenOf(t1, tool) \ {"missing"} # {})

\* C1: round trip.  After a patch-strategy run that saved and applied its
\* patch, undo of that patch leaves every file with its original content,
\* whether or not the last line of a file had a line end.  (Stated for the
\* runs in which undo found a working external tool and no tool failed for
\* an outside reason.)
C1_RoundTrip ==
    (/\ strategy = "patch"
     /\ ~dryRun
     /\ pc = "undone"
     /\ Len(runs) = 1
     /\ runs[1].saved
     /\ SameWorkingTools(runs[1].tiers, undone.tiers)
     /\ \E x \in 1..Len(undone.tiers) : undone.tiers[x].outcome \in {"ok", "reject"})
    => disk = disk0

\* C4: an issue whose line is beyond the end of the file or below 1 is
\* recorded as a skip with "out of range", changes no line and produces no
\* diff: a readable file all of whose issues are out of range has no diff and
\* its computed content is its content.
C4_OutOfRangeNoDiff ==
    \A x \in 1..Len(runs) : \A k \in 1..Len(runs[x].computed) :
        LET r == runs[x]
            c == r.computed[k]
            iss == IssuesOf(r.issues, c.file)
        IN (r.before[c.file].exists /\ InRange(iss, c.old) = {})
           => /\ \A i \in Range(iss) :
                    \E y \in 1..Len(r.session.results) :
                        /\ r.session.results[y].issue = i
                        /\ r.session.results[y].action = "skip"
                        /\ r.session.results[y].error = "out of range"
              /\ c.new = c.old
              /\ c.patch = <<>>

\* the tiers in the order the claim gives them
TierOrder == <<"git", "patch", "builtin">>

\* C6: a saved patch is applied by trying git, then the patch tool, then the
\* built-in applier; a tier is tried exactly when every earlier tier did not
\* succeed, so the apply step fails only after all three tiers have failed.
C6_ThreeTiers ==
    \A x \in 1..Len(runs) :
        LET t == runs[x].tiers
        IN runs[x].saved =>
             /\ Len(t) >= 1
             /\ \A y \in 1..Len(t) :
                  /\ y <= 3
                  /\ t[y].tier = TierOrder[y]
                  /\ t[y].outcome = "ok" <=> (y = Len(t) /\ runs[x].apply = "ok")
             /\ runs[x].apply # "ok" => Len(t) = 3

\* C7: in the session PatchFixer.fix returns, a result is marked applied
\* exactly when it is an accept of a run that was no dry run, produced a patch
\* and applied it with success.
C7_AppliedIffApplied ==
    \A x \in 1..Len(runs) : \A y \in 1..Len(runs[x].session.results) :
        LET r == runs[x]
            res == r.session.results[y]
        IN res.applied <=>
             (res.action = "accept" /\ ~r.dry_run /\ r.saved /\ r.apply = "ok")

\* C8: undo tries git's reverse apply and, whenever that did not succeed
\* (status or tool missing), the patch tool's; it returns true iff one of the
\* two succeeded, has no built-in tier, and with no tool installed returns
\* false and leaves the files as they were.
C8_UndoTiers ==
    undone.called =>
        LET t == undone.tiers
        IN /\ Len(t) >= 1
           /\ t[1].tier = "git"
           /\ t[1].outcome # "ok" => (Len(t) = 2 /\ t[2].tier = "patch")
           /\ t[1].outcome = "ok" => Len(t) = 1
           /\ undone.ok <=> \E y \in 1..Len(t) : t[y].outcome = "ok"
           /\ \A y \in 1..Len(t) : t[y].tier # "builtin"
           /\ (\A y \in 1..Len(t) : t[y].outcome = "missing")
                => (~undone.ok /\ disk = runs[Len(runs)].after)

\* the prompt at which issue k of the loop was decided: the k-th answer, or
\* the accept-all answer given at an earlier issue
AcceptedAt(lp, k) ==
    \/ k <= Len(lp.answers) /\ lp.answers[k] \in {"accept", "accept_all"}
    \/ \E j \in 1..Min(k - 1, Len(lp.answers)) : lp.answers[j] = "accept_all"

\* the issues accepted in the loop, in prompt order
RECURSIVE AcceptedFrom(_, _)
AcceptedFrom(lp, k) ==
    IF k > Len(lp.fixable) THEN <<>>
    ELSE (IF AcceptedAt(lp, k) THEN <<lp.fixable[k]>> ELSE <<>>) \o AcceptedFrom(lp, k + 1)

\* C12: in an interactive command the patch strategy is never called while
\* the loop is still prompting; once the loop has ended (issues exhausted,
\* accept-all or quit) it has been called exactly once, with exactly the issues
\* accepted so far in prompt order, unless the run is a dry run or nothing
\* was accepted, in which case it has not been called at all.
C12_BatchHandOff ==
    strategy = "interactive" =>
        /\ pc = "prompt" => runs = <<>>
        /\ runs # <<>> => loop.ended
        /\ pc \in {"fixed", "raised", "undone"} =>
              IF dryRun \/ AcceptedFrom(loop, 1) = <<>>
              THEN runs = <<>>
              ELSE /\ Len(runs) = 1
                   /\ runs[1].issues = AcceptedFrom(loop, 1)
                   /\ ~runs[1].dry_run

\* the first of two issues was accepted, the loop was quit at the second: the
\* patch strategy got the first issue alone
C12_Witness ==
    /\ strategy = "interactive"
    /\ pc = "fixed"
    /\ ~dryRun
    /\ Len(loop.fixable) = 2
    /\ loop.answers = <<"accept", "quit">>
    /\ Len(runs) = 1
    /\ runs[1].issues = <<loop.fixable[1]>>

\* the files the fixable issues of a list name
FilesOfIssues(issues) == {i.file : i \in Range(filter_fixable(issues))}

\* the results of a session that are about the issues of one file
ResultsOf(results, file) == SelectSeq(results, LAMBDA res : res.issue.file = file)

\* results with the applied flag left aside
Unmarked(results) == [y \in 1..Len(results) |-> [results[y] EXCEPT !.applied = FALSE]]

\* C22: when PatchFixer.fix cannot read a file, every fixable issue of that
\* file has exactly one result, a skip with the error "Failed to read file",
\* not applied; the file has no diff and stays as it was; the session is
\* completed; and every other file has the results and the computed content
\* it has when its issues are supplied alone.
C22_ReadFailure ==
    \A x \in 1..Len(runs) : \A file \in FilesOfIssues(runs[x].issues) :
        ~runs[x].before[file].exists =>
            /\ Len(ResultsOf(runs[x].session.results, file))
                   = Len(IssuesOf(runs[x].issues, file))
            /\ \A y \in 1..Len(IssuesOf(runs[x].issues, file)) :
                   ResultsOf(runs[x].session.results, file)[y]
                       = MkResult(IssuesOf(runs[x].issues, file)[y], "skip",
                                  "Failed to read file")
            /\ \A k \in 1..Len(runs[x].computed) :
                   runs[x].computed[k].file = file => runs[x].computed[k].patch = <<>>
            /\ runs[x].after[file] = runs[x].before[file]
            /\ runs[x].session.completed
            /\ \A other \in FilesOfIssues(runs[x].issues) \ {file} :
                   /\ Unmarked(ResultsOf(runs[x].session.results, other))
                          = FixPlan(IssuesOf(runs[x].issues, other), runs[x].before).results
                   /\ \A k \in 1..Len(runs[x].computed) :
                          runs[x].computed[k].file = other =>
                              runs[x].computed[k]
                                  = FixPlan(IssuesOf(runs[x].issues, other),
                                            runs[x].before).computed[1]

\* g cannot be read, its issue is skipped with the error, and the issue of f
\* of the same run is fixed on disk
C22_Witness ==
    \E x \in 1..Len(runs) :
        /\ ~runs[x].before["g"].exists
        /\ Len(runs[x].session.results) = 2
        /\ \E y \in 1..2 :
               /\ runs[x].session.results[y].issue.file = "g"
               /\ runs[x].session.results[y].error = "Failed to read file"
        /\ \E y \in 1..2 :
               /\ runs[x].session.results[y].issue.file = "f"
               /\ runs[x].session.results[y].applied
        /\ runs[x].apply = "ok"
        /\ runs[x].after["f"] # runs[x].before["f"]

\* no fix of the issues changes the text of the line it names
NoFixChanges(issues, text) ==
    \A i \in InRange(issues, text) :
        apply_to_line(get_fix(i), SplitLines(text)[i.line]) = SplitLines(text)[i.line]

\* C23: when none of the fixes of a readable file changes the text of a line,
\* the file has no diff, no saved patch names it, the file is as it was, and
\* every issue of it that names a line of the file is recorded as accepted.
C23_NoDiffWithoutChange ==
    \A x \in 1..Len(runs) : \A k \in 1..Len(runs[x].computed) :
        (/\ runs[x].before[runs[x].computed[k].file].exists
         /\ NoFixChanges(IssuesOf(runs[x].issues, runs[x].computed[k].file),
                         runs[x].computed[k].old))
        => /\ runs[x].computed[k].patch = <<>>
           /\ \A art \in patchDir.files : \A e \in 1..Len(art.edits) :
                  art.edits[e].file # runs[x].computed[k].file
           /\ runs[x].after[runs[x].computed[k].file]
                  = runs[x].before[runs[x].computed[k].file]
           /\ \A i \in InRange(IssuesOf(runs[x].issues, runs[x].computed[k].file),
                               runs[x].computed[k].old) :
                  \E y \in 1..Len(runs[x].session.results) :
                      /\ runs[x].session.results[y].issue = i
                      /\ runs[x].session.results[y].action = "accept"

\* the entries of computed that led to a diff, and the combined patch of them
WithPatch(computed) == SelectSeq(computed, LAMBDA c : c.patch # <<>>)
CombinedPatch(computed) ==
    JoinWith(<<NL>>, [k \in 1..Len(WithPatch(computed)) |-> WithPatch(computed)[k].patch])

\* the disk d with the files of gone removed
Without(d, gone) == [n \in FileNames |-> IF n \in gone THEN Absent ELSE d[n]]

\* the files the built-in applier is to leave with the fixed content
FixedFiles(computed, gone) ==
    {WithPatch(computed)[k].file : k \in 1..Len(WithPatch(computed))} \ gone

FixedContent(computed, file) ==
    (CHOOSE c \in Range(WithPatch(computed)) : c.file = file).new

\* C24: the built-in applier, given the combined patch of a session and the
\* original files, leaves every patched file with the fixed content that was
\* computed for it; a file named in the patch that does not exist is skipped,
\* the operation succeeds and the other files are patched all the same.
C24_BuiltinConsumes ==
    \A x \in 1..Len(runs) :
        WithPatch(runs[x].computed) # <<>> =>
            \A gone \in SUBSET FixedFiles(runs[x].computed, {}) :
                /\ manual_apply_patch(Without(runs[x].before, gone),
                                      CombinedPatch(runs[x].computed)).ok
                /\ \A n \in FileNames :
                       manual_apply_patch(Without(runs[x].before, gone),
                                          CombinedPatch(runs[x].computed)).disk[n]
                           = IF n \in FixedFiles(runs[x].computed, gone)
                             THEN MkFile(FixedContent(runs[x].computed, n))
                             ELSE Without(runs[x].before, gone)[n]

\* C25: a fix command whose patch was not applied and an undo command whose
\* patch was not reverted end with a non-zero exit status; status 0 of fix or
\* undo means that the patch operation succeeded or that there was none.
C25_FailuresReachExit ==
    /\ fixExit = 0 => \A x \in 1..Len(runs) : runs[x].apply \in {"none", "ok"}
    /\ (undone.called /\ undone.exit = 0) => undone.ok
    /\ (undone.called /\ ~undone.ok) => undone.exit # 0

\* the results of a session were recorded as accept or skip, and applied is
\* set on accept results only
ResultsSound(results) ==
    \A y \in 1..Len(results) :
        /\ results[y].action \in {"accept", "skip"}
        /\ results[y].applied => results[y].action = "accept"

\* C27: the session PatchFixer.fix returns has one result for every issue it
\* was given that has a suggestion and none for an issue without; in a session
\* of either strategy every result is an accept or a skip, applied is set on
\* accept results only, and a session that was returned is completed.
C27_SessionResults ==
    /\ \A x \in 1..Len(runs) :
           /\ Len(runs[x].session.results) = Len(filter_fixable(runs[x].issues))
           /\ \A i \in Range(runs[x].issues) :
                  Cardinality({y \in 1..Len(runs[x].session.results) :
                                   runs[x].session.results[y].issue = i})
                      = IF i.has_suggestion THEN 1 ELSE 0
           /\ ResultsSound(runs[x].session.results)
           /\ runs[x].apply # "raise" => runs[x].session.completed
    /\ ResultsSound(cmdSession.results)
    /\ pc \in {"fixed", "undone"} => cmdSession.completed

\* an interactive session is over: the user skipped an issue and then took all
\* the rest, and the patch strategy skipped what it was handed
C27_Witness ==
    /\ strategy = "interactive"
    /\ pc = "fixed"
    /\ loop.accept_all
    /\ \E y \in 1..Len(cmdSession.results) : cmdSession.results[y].action = "skip"
    /\ \E y \in 1..Len(cmdSession.results) : cmdSession.results[y].applied
    /\ Len(runs) = 1
    /\ \E y \in 1..Len(runs[1].session.results) : runs[1].session.results[y].action = "skip"

\* the patch strategy applied the fix of the issue in the run: it accepted the
\* issue, the issue's file led to a diff and the patch was applied (r is the
\* record of the run)
AppliedIn(r, issue) ==
    /\ r.apply = "ok"
    /\ \E z \in 1..Len(r.session.results) :
           /\ r.session.results[z].issue = issue
           /\ r.session.results[z].action = "accept"
    /\ \E k \in 1..Len(r.computed) :
           /\ r.computed[k].file = issue.file
           /\ r.computed[k].patch # <<>>

\* C28: in an interactive session that is no dry run a result is marked
\* applied only if the patch strategy applied the fix of its issue.
C28_AppliedTruthful ==
    (strategy = "interactive" /\ pc = "fixed" /\ ~dryRun) =>
        \A y \in 1..Len(cmdSession.results) :
            cmdSession.results[y].applied =>
                /\ Len(runs) = 1
                /\ AppliedIn(runs[1], cmdSession.results[y].issue)

-----------------------------------------------------------------------------
(* Properties of a batch fix of several issues of one line (SpecBatch). *)

\* the issue names a span of the line that holds its original text
SpanHolds(i, line) ==
    /\ i.column # None
    /\ i.column + Len(i.original) <= Len(line)
    /\ SubSeq(line, i.column + 1, i.column + Len(i.original)) = i.original

\* the issues are two or more, every one names its own span of line 1
OwnSpans(issues, text) ==
    /\ Len(issues) >= 2
    /\ \A k \in 1..Len(issues) :
           /\ issues[k].line = 1
           /\ SpanHolds(issues[k], SplitLines(text)[1])
    /\ \A k, l \in 1..Len(issues) :
           k # l => \/ issues[k].column + Len(issues[k].original) <= issues[l].column
                    \/ issues[l].column + Len(issues[l].original) <= issues[k].column

\* the line with the span of every issue replaced by its suggestion and
\* nothing else changed: the rightmost span first
RECURSIVE Substituted(_, _)
Substituted(line, issues) ==
    IF issues = {} THEN line
    ELSE LET i == CHOOSE j \in issues : \A o \in issues : o.column <= j.column
         IN Substituted(SubSeq(line, 1, i.column) \o i.suggestion
                            \o SubSeq(line, i.column + Len(i.original) + 1, Len(line)),
                        issues \ {i})

\* C29: a batch fix of two or more issues that name their own spans of one
\* line leaves the line with every span replaced by its suggestion and
\* nothing else changed, and the other lines as they were.
C29_SeveralFixesOneLine ==
    \A x \in 1..Len(runs) : \A k \in 1..Len(runs[x].computed) :
        OwnSpans(IssuesOf(runs[x].issues, runs[x].computed[k].file),
                 runs[x].computed[k].old)
        => SplitLines(runs[x].computed[k].new)
               = [SplitLines(runs[x].computed[k].old) EXCEPT ![1] =
                      Substituted(@, Range(IssuesOf(runs[x].issues,
                                                    runs[x].computed[k].file)))]

-----------------------------------------------------------------------------
(* Properties of the patch directory over several commands (SpecDir). *)

\* C20: the patch directory is append-only: a step keeps every saved artifact
\* as it is, except the one artifact the user confirmed to delete after its
\* successful undo; and a fix session that saves a patch adds a file whose
\* name no file of the directory had before, also when the clock has not moved
\* since the last session.
C20_AppendOnly ==
    [][/\ \A x \in patchDir.files :
            \/ x \in patchDir'.files
            \/ /\ runs' = runs
               /\ pc' = "undone"
               /\ undone'.called /\ undone'.ok /\ undone'.deleted
               /\ undone'.name = x.name
       /\ (Len(runs') = Len(runs) + 1 /\ runs'[Len(runs')].saved) =>
            /\ \E x \in patchDir'.files : x.name = runs'[Len(runs')].name
            /\ \A y \in patchDir.files : y.name # runs'[Len(runs')].name]_vars

\* the saved sessions whose artifact was in the directory when the last undo
\* command looked at it
SavedThen ==
    {x \in 1..Len(runs) :
        /\ runs[x].saved
        /\ \/ \E f \in patchDir.files : f.name = runs[x].name
           \/ undone.deleted /\ undone.name = runs[x].name}

\* the sessions that saved a patch were started at pairwise distinct times
DistinctTimes ==
    \A x, y \in 1..Len(runs) :
        (runs[x].saved /\ runs[y].saved /\ x # y) => runs[x].session.id # runs[y].session.id

\* C21: list_patches gives every .patch file of the patch directory once,
\* the greatest file name first (nothing when the directory is missing);
\* get_latest_patch gives the first of that list or nothing; and when the
\* sessions were saved at distinct times, an undo without a named patch has
\* taken the artifact of the session saved last (and ends with 1 without
\* calling undo when there is none).
C21_NewestFirst ==
    /\ ~patchDir.exists => list_patches(patchDir) = <<>>
    /\ Range(list_patches(patchDir))
           = {n \in {x.name : x \in patchDir.files} : EndsWith(n, PatchSuffix)}
    /\ Len(list_patches(patchDir)) = Cardinality(Range(list_patches(patchDir)))
    /\ \A i, j \in 1..Len(list_patches(patchDir)) :
           i < j => StrLess(list_patches(patchDir)[j], list_patches(patchDir)[i])
    /\ get_latest_patch(patchDir) =
           (IF list_patches(patchDir) = <<>> THEN NoName ELSE list_patches(patchDir)[1])
    /\ (pc = "undone" /\ undone.named = NoName /\ DistinctTimes) =>
           IF SavedThen = {} THEN ~undone.called /\ undone.exit = 1
           ELSE /\ undone.called
                /\ \E x \in SavedThen :
                       /\ undone.name = runs[x].name
                       /\ \A y \in SavedThen : y <= x

\* two sessions saved in the seconds 09 and 10, listed newest first, and the
\* undo without a name took the patch of the second
C21_Witness ==
    /\ pc = "undone"
    /\ undone.called
    /\ undone.named = NoName
    /\ Len(runs) = 2
    /\ runs[1].saved /\ runs[2].saved
    /\ runs[1].name = PatchName(<<"0", "9">>, <<"0", "9">>)
    /\ runs[2].name = PatchName(<<"1", "0">>, <<"1", "0">>)
    /\ listed = <<runs[2].name, runs[1].name>>
    /\ undone.name = runs[2].name

-----------------------------------------------------------------------------
(* Properties of CheckContext and CheckRunner (SpecScan). *)

\* C13: since the context was made or its cache last cleared, no resolved path
\* has been read from disk more than once; the first read_file of a path
\* returns what is on disk at that moment (so the current content after a
\* clear_cache), and every later read_file of it returns what that first read
\* saw, whatever has been written to the file since.
C13_ReadOnce ==
    /\ \A p \in FileNames : ctx.reads[p] <= 1
    /\ (readOut.called /\ ~readOut.raised) =>
          /\ readOut.reads = 1
          /\ readOut.text = readOut.first
          /\ readOut.nth = 1 => readOut.text = readOut.disk

\* f was read again after it had been changed on
\* disk: the content of the first read came back, and the disk was read once
C13_Witness ==
    /\ readOut.called
    /\ ~readOut.raised
    /\ readOut.path = "f"
    /\ readOut.nth = 2
    /\ readOut.text # readOut.disk
    /\ ctx.reads["f"] = 1

\* the lines of a text that are a checker's mark, lowest first
RECURSIVE LinesUpTo(_)
LinesUpTo(n) == IF n = 0 THEN <<>> ELSE Append(LinesUpTo(n - 1), n)

FlaggedIn(checker, text) ==
    SelectSeq(LinesUpTo(Len(SplitLines(text))),
              LAMBDA k : SplitLines(text)[k] = checker.mark)

\* what the run owes for one file and one checker: nothing when the file was
\* not read, the checker is off, does not take the file or raised on it
OwedBy(out, checker, file) ==
    IF /\ out.seen[file].read
       /\ checker.enabled
       /\ file \in checker.supports
       /\ <<checker.name, file>> \notin out.raising
    THEN [x \in 1..Len(FlaggedIn(checker, out.seen[file].text)) |->
             [checker |-> checker.name, file |-> file,
              line |-> FlaggedIn(checker, out.seen[file].text)[x]]]
    ELSE <<>>

OwedFor(out, file) ==
    Concat([k \in 1..Len(ScanCheckers) |-> OwedBy(out, ScanCheckers[k], file)])

\* C14: a run never aborts on a file that cannot be read or on a checker that
\* raises; it returns, file by file and checker by checker, exactly the issues
\* of every enabled checker that takes the file and did not raise on it, for
\* every file that could be read: an unreadable file and a raising (file,
\* checker) pair contribute nothing and take nothing else away.
C14_FailureIsolation ==
    scanOut.called =>
        /\ ~scanOut.raised
        /\ [x \in 1..Len(scanOut.issues) |->
               [checker |-> scanOut.issues[x].checker, file |-> scanOut.issues[x].file,
                line |-> scanOut.issues[x].line]]
           = OwedFor(scanOut, "f") \o OwedFor(scanOut, "g")

\* c1 raised on f and g could not be read: the issues of c2 and c4 on f came
\* back all the same
C14_Witness ==
    /\ scanOut.called
    /\ scanOut.raising = {<<"c1", "f">>}
    /\ scanOut.seen["f"].read
    /\ scanOut.seen["f"].text = <<"a", NL, "b", NL>>
    /\ scanOut.seen["g"].collected
    /\ ~scanOut.seen["g"].read
    /\ Len(scanOut.issues) = 2
    /\ scanOut.issues[1].checker = "c2"
    /\ scanOut.issues[2].checker = "c4"

\* the checker of the configuration with the given name
CheckerNamed(name) ==
    CHOOSE c \in Range(ScanCheckers) : c.name = name

\* the lines from to upto of a text, each with its 1-based number
Numbered(lines, from, upto) ==
    [x \in 1..(upto - from + 1) |-> <<from + x - 1, lines[from + x - 1]>>]

\* C26: after a run every issue has a snapshot.  For an issue at line L of a
\* file of T lines, 1 <= L <= T, a snapshot the run attached holds the lines
\* max(1, L-N) .. L-1 as before, line L as current and the lines L+1 ..
\* min(T, L+N) as after, each with its number, N being the context size; an
\* issue that came with a snapshot has it unchanged.
C26_ContextSnapshot ==
    (scanOut.called /\ ~scanOut.raised) =>
        \A k \in 1..Len(scanOut.issues) :
            /\ scanOut.issues[k].context.set
            /\ CheckerNamed(scanOut.issues[k].checker).snapshot =>
                   scanOut.issues[k].context
                       = OwnContext(SplitLines(scanOut.seen[scanOut.issues[k].file].text),
                                    scanOut.issues[k].line)
            /\ (/\ ~CheckerNamed(scanOut.issues[k].checker).snapshot
                /\ scanOut.issues[k].line >= 1
                /\ scanOut.issues[k].line
                       <= Len(SplitLines(scanOut.seen[scanOut.issues[k].file].text))) =>
                   /\ scanOut.issues[k].context.before
                          = Numbered(SplitLines(scanOut.seen[scanOut.issues[k].file].text),
                                     Max(1, scanOut.issues[k].line - output_context_lines),
                                     scanOut.issues[k].line - 1)
                   /\ scanOut.issues[k].context.current
                          = <<scanOut.issues[k].line,
                              SplitLines(scanOut.seen[scanOut.issues[k].file].text)
                                  [scanOut.issues[k].line]>>
                   /\ scanOut.issues[k].context.after
                          = Numbered(SplitLines(scanOut.seen[scanOut.issues[k].file].text),
                                     scanOut.issues[k].line + 1,
                                     Min(Len(SplitLines(
                                             scanOut.seen[scanOut.issues[k].file].text)),
                                         scanOut.issues[k].line + output_context_lines))

\* a run over the longer text: the issue of line 5 has the lines 2 to 4 before
\* it, the issue of line 1 the lines 2 to 4 after it, and an issue that came
\* with its own snapshot is among the issues
C26_Witness ==
    /\ scanOut.called
    /\ ~scanOut.raised
    /\ \E k \in 1..Len(scanOut.issues) :
           /\ scanOut.issues[k].line = 5
           /\ scanOut.issues[k].checker = "c1"
           /\ Len(scanOut.issues[k].context.before) = 3
           /\ scanOut.issues[k].context.before[1][1] = 2
           /\ scanOut.issues[k].context.after = <<>>
    /\ \E k \in 1..Len(scanOut.issues) :
           /\ scanOut.issues[k].line = 1
           /\ scanOut.issues[k].checker = "c2"
           /\ scanOut.issues[k].context.before = <<>>
           /\ Len(scanOut.issues[k].context.after) = 3
           /\ scanOut.issues[k].context.after[3][1] = 4
    /\ \E k \in 1..Len(scanOut.issues) :
           /\ scanOut.issues[k].checker = "c4"
           /\ scanOut.issues[k].line = 4
           /\ scanOut.issues[k].context.before = <<>>

-----------------------------------------------------------------------------
(* Properties of InteractiveFixer._prompt_action (SpecPrompt). *)

\* what was typed, without the blanks around it and in lower case
Typed(inp) == PyLower(PyStrip(inp.text))

\* the action an input stands for, "undecided" for show-diff, show-help and
\* anything unrecognized
ChosenBy(inp) ==
    IF inp.kind = "eof" \/ inp.kind = "interrupt" THEN "quit"
    ELSE IF Typed(inp) = <<"y">> \/ Typed(inp) = <<"y", "e", "s">> THEN "accept"
    ELSE IF Typed(inp) = <<"n">> \/ Typed(inp) = <<"n", "o">> \/ Typed(inp) = <<>>
    THEN "skip"
    ELSE IF Typed(inp) = <<"a">> \/ Typed(inp) = <<"a", "l", "l">> THEN "accept_all"
    ELSE IF Typed(inp) = <<"q">> \/ Typed(inp) = <<"q", "u", "i", "t">> THEN "quit"
    ELSE "undecided"

\* C11: whatever is typed, _prompt_action returns the action of the first
\* input that is y/yes, n/no or empty, a/all, q/quit, end-of-input or interrupt
\* (in any letter case) and reads no input after it; as long as only show-diff,
\* show-help and unrecognized inputs were typed it has not returned, so the
\* same issue is still being prompted.
C11_FirstDecides ==
    /\ (\A k \in 1..Len(typed) : ChosenBy(typed[k]) = "undecided") => prAction = "none"
    /\ \A k \in 1..Len(typed) :
         (ChosenBy(typed[k]) # "undecided"
          /\ \A j \in 1..(k - 1) : ChosenBy(typed[j]) = "undecided")
         => (prAction = ChosenBy(typed[k]) /\ k = Len(typed))

\* diff, then an unknown option, then YES in capitals: accepted at the third
\* input
C11_Witness ==
    /\ Len(typed) = 3
    /\ typed[1] = Line(<<"d">>)
    /\ typed[2] = Line(<<"z">>)
    /\ typed[3] = Line(<<"Y", "E", "S">>)
    /\ prAction = "accept"

-----------------------------------------------------------------------------
(* Properties of the resolvers and of the image checker (SpecSite). *)

\* the path begins with http://, https:// or //
BeginsExternal(path) ==
    \/ StartsWith(path, <<"h", "t", "t", "p", ":", "/", "/">>)
    \/ StartsWith(path, <<"h", "t", "t", "p", "s", ":", "/", "/">>)
    \/ StartsWith(path, <<"/", "/">>)

\* C15: external references are never flagged.  No issue of the image
\* checker is about a reference whose path begins with http://, https:// or
\* //, with either resolver, with ignore_external on or off and whatever the
\* tree holds; a resolver says of such a reference that it exists and
\* resolves it to no local path.
C15_ExternalNeverFlagged ==
    /\ imgOut.called =>
           \A i \in 1..Len(imgOut.issues) : ~BeginsExternal(imgOut.issues[i].original)
    /\ (resOut.op = "resolve" /\ BeginsExternal(resOut.path)) =>
           (resOut.exists /\ resOut.resolved = NoPath)

\* a document with the three external references was checked with
\* ignore_external off by the Hexo resolver, on a machine that has files at
\* the places the reference //h/x.p could mean, and no issue came out
C15_Witness ==
    /\ imgOut.called
    /\ imgOut.issues = <<>>
    /\ doc.lines = <<ExternalLine>>
    /\ ~doc.checker.ignore_external
    /\ doc.resolver = HexoResolver(TRUE)
    /\ site = PostTree

\* the line starts, after blanks, with three backquotes
FenceMarked(l) ==
    \E n \in 0..Len(l) :
        /\ \A j \in 1..n : l[j] = " "
        /\ n + 3 <= Len(l)
        /\ \A j \in (n + 1)..(n + 3) : l[j] = BackQuote

\* line k is no fence line and an even number of fence lines precede it
Examined(k) ==
    /\ ~FenceMarked(doc.lines[k])
    /\ Cardinality({j \in 1..(k - 1) : FenceMarked(doc.lines[j])}) % 2 = 0

\* line k, as a document of its own, gets an issue
FlaggedAlone(k) ==
    check(doc.file, doc.lines[k], doc.checker, doc.resolver, ProjectRoot, site) # <<>>

\* C16: code-fence suppression.  With skip_code_blocks on, a line gets an
\* issue exactly when it would get one on its own, is no fence line and an
\* even number of fence lines precede it: a broken reference between two
\* fence lines gets none, the same reference outside gets one, and after a
\* fence that is not closed nothing gets one.
C16_FenceSuppression ==
    (imgOut.called /\ doc.checker.skip_code_blocks) =>
        \A k \in 1..Len(doc.lines) :
            (\E i \in 1..Len(imgOut.issues) : imgOut.issues[i].line = k)
                <=> (Examined(k) /\ FlaggedAlone(k))

\* the broken reference stands between two fence lines and after them: the
\* only issue is the one of line 4
C16_Witness ==
    /\ imgOut.called
    /\ doc.checker.skip_code_blocks
    /\ doc.lines = <<FenceLine, BrokenLine, IndentedFenceLine, BrokenLine>>
    /\ Len(imgOut.issues) = 1
    /\ imgOut.issues[1].line = 4

\* <base>/<reference>: the parts of the reference below the base
Under(base, reference) ==
    [root |-> base.root, parts |-> base.parts \o PurePath(reference).parts]

\* the reference as the resolver of the document reads it: the Hexo
\* resolver decodes it and takes a leading ./ off
LocalPath(path) ==
    IF doc.resolver.name = "hexo" THEN normalize_path(PyStrip(path)) ELSE PyStrip(path)

\* the first segment of the document below the root is a post directory
IsPost ==
    /\ is_relative_to(doc.file, ProjectRoot)
    /\ Len(doc.file.parts) > Len(ProjectRoot.parts)
    /\ doc.file.parts[Len(ProjectRoot.parts) + 1] \in doc.resolver.post_dir

DocDir == path_parent(doc.file)

\* <document dir>/<document name without extension>
AssetDir == Under(DocDir, path_stem(doc.file))

HasAssetDir == IsPost /\ doc.resolver.asset_folder_per_post

\* C17: asset-folder resolution.  The Hexo resolver resolves a reference
\* with a leading slash to <project root>/<reference without the slash>; a
\* relative reference of a post, with the asset folder feature on, to
\* <document dir>/<document name without extension>/<reference> when that
\* exists; any other to <document dir>/<reference>.
C17_AssetFolderResolution ==
    (resOut.op = "resolve" /\ doc.resolver.name = "hexo" /\ ~BeginsExternal(resOut.path)) =>
        resOut.resolved =
            IF StartsWith(LocalPath(resOut.path), <<"/">>)
            THEN Under(ProjectRoot, Tail(LocalPath(resOut.path)))
            ELSE IF HasAssetDir /\ path_exists(site, Under(AssetDir, LocalPath(resOut.path)))
            THEN Under(AssetDir, LocalPath(resOut.path))
            ELSE Under(DocDir, LocalPath(resOut.path))

\* the two paths lead to one existing file of the tree
SameFile(a, b) ==
    /\ a # NoPath
    /\ path_exists(site, a)
    /\ path_exists(site, b)
    /\ os_walk(site, <<>>, a.parts).at = os_walk(site, <<>>, b.parts).at

\* the suggestion find_similar makes for the matched file m
SuggestionFor(m) ==
    IF doc.resolver.name = "hexo"
    THEN hexo_suggestion(m, doc.file, ProjectRoot, doc.resolver)
    ELSE base_suggestion(m, doc.file)

\* C18: suggestions are usable as direct replacements.  For a matched file
\* under the project root, the suggestion find_similar returns is a
\* reference that the same resolver, from the same document, finds to exist
\* and resolves to that very file.
C18_SuggestionsUsable ==
    resOut.op = "find_similar" =>
        \A i \in 1..Len(resOut.matches) :
            is_relative_to(resOut.matches[i], ProjectRoot) =>
                /\ \E j \in 1..Len(resOut.similar) :
                       resOut.similar[j] = SuggestionFor(resOut.matches[i])
                /\ exists(doc.resolver, SuggestionFor(resOut.matches[i]), doc.file,
                          ProjectRoot, site)
                /\ SameFile(resolve(doc.resolver, SuggestionFor(resOut.matches[i]),
                                    doc.file, ProjectRoot, site),
                            resOut.matches[i])

\* the directories the reference implies: under the project root for a
\* leading slash, else under the document's directory and, for a post with
\* an asset folder, under that folder as well
ImpliedDirs(path) ==
    IF StartsWith(LocalPath(path), <<"/">>)
    THEN <<path_parent(Under(ProjectRoot, Tail(LocalPath(path))))>>
    ELSE <<path_parent(Under(DocDir, LocalPath(path)))>>
         \o (IF doc.resolver.name = "hexo" /\ HasAssetDir
             THEN <<path_parent(Under(AssetDir, LocalPath(path)))>>
             ELSE <<>>)

\* the files of the tree a list of paths leads to, in order
FilesOf(paths) == [i \in 1..Len(paths) |-> os_walk(site, <<>>, paths[i].parts).at]

\* C19: suggestion search directory.  find_similar takes its candidates
\* from the directories the reference implies for the resolver, in that
\* order: the files it matches are the close names of those directories.
C19_SearchDirectory ==
    (resOut.op = "find_similar" /\ ~BeginsExternal(resOut.path)) =>
        FilesOf(resOut.matches)
            = FilesOf(matches_in_dirs(ImpliedDirs(resOut.path), LocalPath(resOut.path), site,
                                      fuzzy_threshold))

\* the indexes, in the line, of the characters that are left when the inline
\* code is taken out; base is the number of characters before s in the line
RECURSIVE KeptIndexes(_, _)
KeptIndexes(s, base) ==
    IF s = <<>> THEN <<>>
    ELSE IF s[1] = BackQuote /\ FirstIn(s, 2, {BackQuote}) > 2
    THEN KeptIndexes(SubSeq(s, FirstIn(s, 2, {BackQuote}) + 1, Len(s)),
                     base + FirstIn(s, 2, {BackQuote}))
    ELSE <<base + 1>> \o KeptIndexes(Tail(s), base + 1)

\* the matches of the three patterns in a line without its inline code
MarkupMatches(l) ==
    Range(markdown_image_finditer(inline_code_removed(l), 1))
    \cup Range(tag_finditer(inline_code_removed(l), 1, <<"i", "m", "g">>, <<"s", "r", "c">>))
    \cup Range(tag_finditer(inline_code_removed(l), 1, <<"v", "i", "d", "e", "o">>,
                            <<"p", "o", "s", "t", "e", "r">>))

\* the columns of the line where the target of a markup starts that holds
\* the path
TargetColumns(l, path) ==
    {KeptIndexes(l, 0)[m.group + 1] - 1 : m \in {n \in MarkupMatches(l) : n.path = path}}

\* C30: the span an issue of the image checker names, from its column on as
\* long as its original text, holds the original text and is the target of a
\* markup of the line.
C30_FixHitsReference ==
    imgOut.called =>
        \A i \in 1..Len(imgOut.issues) :
            /\ SubSeq(doc.lines[imgOut.issues[i].line], imgOut.issues[i].column + 1,
                      imgOut.issues[i].column + Len(imgOut.issues[i].original))
                   = imgOut.issues[i].original
            /\ imgOut.issues[i].column
                   \in TargetColumns(doc.lines[imgOut.issues[i].line],
                                     imgOut.issues[i].original)

====
